---- MODULE Spec2Model ----
(***************************************************************************)
(* Download admission / queueing controller of RGSX (rgsx_web.py) and the  *)
(* extraction progress writer (utils.py).                                  *)
(*                                                                         *)
(* Threads of the program:                                                 *)
(*   - one HTTP handler at a time (http.server.HTTPServer is not          *)
(*     threaded), modelled by `handler`: its position and locals;          *)
(*   - one worker thread per started transfer (run_download_now,           *)
(*     run_download_queue, run_download), modelled by wpc[n];              *)
(*   - one short-lived thread per promotion                                *)
(*     (lambda: self._process_queued_download(next_item)), modelled by     *)
(*     membership of the popped item in `promo`.                           *)
(* The code takes no lock around download_active, download_queue or the    *)
(* history file, so a handler is split into steps at the places where it   *)
(* reads or writes that shared state and the threads interleave freely.    *)
(* Kept as one step each: a load_history ... save_history pair inside one  *)
(* handler, and the three statements of a finally block.                   *)
(*                                                                         *)
(* history.py, network.py and config.py are not among the sources: the     *)
(* store is modelled as whole-collection load and save (disk), and the     *)
(* transfer primitive by the outcomes of TransferEnd and the terminal      *)
(* status it publishes (WriteTerminal).                                    *)
(*                                                                         *)
(* extract_zip (utils.py) is modelled step by step under its own           *)
(* specification SpecZip, on the same variables: `ex` holds the archive,   *)
(* the destination and the position of the extraction, history and disk    *)
(* the record of the task being extracted. In Spec and SpecFew `ex` is     *)
(* idle and the extraction is the pair UpdateExtractionProgress /          *)
(* ExtractEnd of the worker.                                               *)
(*                                                                         *)
(* The other parts of utils.py have their own specifications on the same   *)
(* variables: SpecRar (extract_rar), SpecArchive (both extractors),        *)
(* SpecDispatch (_handle_special_platforms), SpecPlatform (handle_dos,     *)
(* handle_scummvm, handle_psvita), SpecPs3 (handle_ps3) and SpecXbox       *)
(* (handle_xbox over several images). SpecFewFair adds to SpecFew the      *)
(* scheduling the threads can count on.                                    *)
(***************************************************************************)
EXTENDS Integers, Sequences, FiniteSets, TLC

\* ---------------------------------------------------------------- bounds
MaxTasks == 3      \* number of /api/download requests the clients send (Spec)
FewTasks == 2      \* the same in the smaller specification SpecFew
NumUrls == 2       \* number of distinct game urls

Urls == 1..NumUrls
TaskNs == 1..MaxTasks

\* the game the n-th request asks for: the requests cycle through the games, so
\* with MaxTasks > NumUrls the same url is requested more than once
UrlOf(n) == ((n - 1) % NumUrls) + 1

\* ---------------------------------------------------------------- state
VARIABLES
    download_active,   \* config.download_active
    download_queue,    \* config.download_queue: sequence of task numbers
    history,           \* config.history: the in-memory record list
    disk,              \* history.json as load_history() would return it
    tasks,             \* the tasks created so far, by submission number
    wpc,               \* position of the worker thread of each task
    promo,             \* items popped from the queue whose promotion thread has not run yet
    handler,           \* the HTTP request being served: position, locals, response
    remaining,         \* /api/download requests the clients have still to send
    ex                 \* the archive extraction under study: position, archive, result

vars == <<download_active, download_queue, history, disk, tasks, wpc, promo,
          handler, remaining, ex>>

\* ---------------------------------------------------------------- helpers
\* status lists of the code ("Telechargement" stands for the accented French
\* status string, which the web handlers never write themselves)
CancelStatuses == {"Downloading", "Telechargement", "Connecting"}
ExtractStatuses == {"Telechargement", "Extracting", "Downloading"}
TerminalStatuses == {"Downloading", "Telechargement", "Extracting"}

\* the first of the indices in S, 0 when there is none: S is the set of
\* positions a `for entry in ...: if ...: ...; break` loop would accept
FirstIdx(S) ==
    IF S = {} THEN 0 ELSE CHOOSE i \in S : \A j \in S : i <= j

SetStatus(s, i, st) == [s EXCEPT ![i].status = st]

\* list.pop(idx) with a 1-based index
RemoveAt(s, i) == [j \in 1..(Len(s) - 1) |-> IF j < i THEN s[j] ELSE s[j + 1]]

RecordAlwaysQueued(n, st) ==
    [n |-> n, task_id |-> tasks[n].task_id, url |-> tasks[n].url, status |-> "Queued",
     timestamp |-> tasks[n].task_id]

\* a history entry as /api/download builds it; 'timestamp' is the clock read
\* when the entry is built (the clock of task_id, at a coarser grain)
Record(n, st) ==
    [n |-> n, task_id |-> tasks[n].task_id, url |-> tasks[n].url, status |-> st,
     timestamp |-> tasks[n].task_id]

Idle == [op |-> "idle", pc |-> "", n |-> 0, arg |-> 0, k |-> 0, queued |-> FALSE]

\* the handler has built its answer and is about to _send_json it: code is
\* the HTTP status ('success' is True exactly in the answers sent with 200),
\* val the queue_position / cleared_count / task_id of the answer
Resp(op, n, code, queued, val) ==
    [op |-> op, pc |-> "send", n |-> n, arg |-> code, k |-> val, queued |-> queued]

\* task_id = f"web_{int(time.time() * 1000)}": the clock never goes back; two
\* requests served within the same millisecond get the same id
NextTaskIds ==
    IF tasks = <<>> THEN {1}
    ELSE {tasks[Len(tasks)].task_id, tasks[Len(tasks)].task_id + 1}

\* ------------------------------------------------ the archive under study
\* the entries a ZIP archive may hold: a file, a file below a directory of the
\* same name as that file, and a disc image
ZipNames == {"a", "a/b", "c.iso"}

\* zip_ref.infolist(): the entries in the order the archive lists them
ZipOrder == <<"a/b", "a", "c.iso">>

\* what an entry of the archive is: not there; a sound file; a sound file of
\* size 0; a file whose CRC-32 does not match (zipfile raises BadZipFile when
\* it has read it to the end, testzip() returns its name); a file whose
\* compressed data cannot be inflated (zipfile raises zlib.error, which
\* testzip() does not catch)
MemberStates == {"absent", "good", "empty", "badcrc", "baddata"}

\* where the archive is extracted to: an ordinary system folder, the xbox
\* folder, or one of the ps3 / dos / scummvm / psvita folders
Dests == {"plain", "xbox", "special"}

\* the fields of `ex`: pc, the position in extract_zip / extract_rar; iszip,
\* the file is a ZIP archive at all; members, its file entries; hasdir, it also
\* lists the empty directory EmptyDir; dest, the destination; inside, the
\* archive lies in the destination folder itself; iso_before, a disc image was
\* there before; testzip, what testzip() gave; todo, the files still to be
\* handled; written, the files written to the destination; post, whether a
\* platform handler was called and what it answered; exists, the archive is
\* still at its path; moved, a platform handler has moved the archive into the
\* game folder; ok and msg, the pair returned
ExIdle ==
    [pc |-> "idle", iszip |-> TRUE, members |-> [x \in ZipNames |-> "absent"],
     hasdir |-> FALSE, dest |-> "plain", inside |-> FALSE, iso_before |-> FALSE,
     testzip |-> "none", todo |-> <<>>, written |-> {}, post |-> "none",
     exists |-> FALSE, moved |-> FALSE, ok |-> FALSE, msg |-> ""]

\* ---------------------------------------------------------------- Init
Init ==
    /\ download_active = FALSE
    /\ download_queue = <<>>
    /\ history = <<>>
    /\ disk = <<>>
    /\ tasks = <<>>
    /\ wpc = [n \in TaskNs |-> "none"]
    /\ promo = {}
    /\ handler = Idle
    /\ remaining = MaxTasks
    /\ ex = ExIdle

\* ------------------------------------------------- POST /api/download
\* mode = now: the whole branch is one step, it touches no shared state but
\* the thread it starts
SubmitNow ==
    /\ handler.op = "idle"
    /\ remaining > 0
    /\ remaining' = remaining - 1
    /\ \E tid \in NextTaskIds :
        LET n == Len(tasks) + 1 IN
        /\ tasks' = Append(tasks, [task_id |-> tid, url |-> UrlOf(n), mode |-> "now"])
        /\ wpc' = [wpc EXCEPT ![n] = "download"]
        /\ handler' = Resp("download", n, 200, FALSE, 0)
    /\ UNCHANGED <<download_active, download_queue, history, disk, promo, ex>>

\* mode = queue: should_queue = mode == 'queue' and config.download_active
SubmitQueueTest ==
    /\ handler.op = "idle"
    /\ remaining > 0
    /\ remaining' = remaining - 1
    /\ \E tid \in NextTaskIds :
        LET n == Len(tasks) + 1 IN
        /\ tasks' = Append(tasks, [task_id |-> tid, url |-> UrlOf(n), mode |-> "queue"])
        /\ handler' = [Idle EXCEPT !.op = "download",
                                   !.pc = IF download_active THEN "append" ELSE "start",
                                   !.n = n]
    /\ UNCHANGED <<download_active, download_queue, history, disk, wpc, promo, ex>>

\* config.download_queue.append(queue_item)
\* (handler.k remembers the length the queue had just before, which the code
\* does not keep: the claims about queue_position compare against it)
SubmitQueueAppend ==
    /\ handler.op = "download" /\ handler.pc = "append"
    /\ download_queue' = Append(download_queue, handler.n)
    /\ handler' = [handler EXCEPT !.pc = "record", !.k = Len(download_queue)]
    /\ UNCHANGED <<download_active, history, disk, tasks, wpc, promo, remaining, ex>>

\* config.history.append(queue_history_entry); save_history(config.history);
\* response with queue_position = len(config.download_queue)
SubmitQueueRecord ==
    /\ handler.op = "download" /\ handler.pc = "record"
    /\ history' = Append(history, Record(handler.n, "Queued"))
    /\ disk' = history'
    /\ handler' = Resp("download", handler.n, 200, TRUE, Len(download_queue))
    /\ UNCHANGED <<download_active, download_queue, tasks, wpc, promo, remaining, ex>>

\* mode = queue and the slot was read free: start at once
SubmitQueueStart ==
    /\ handler.op = "download" /\ handler.pc = "start"
    /\ download_active' = TRUE
    /\ history' = Append(history, Record(handler.n, "Downloading"))
    /\ disk' = history'
    /\ wpc' = [wpc EXCEPT ![handler.n] = "download"]
    /\ handler' = Resp("download", handler.n, 200, FALSE, 0)
    /\ UNCHANGED <<download_queue, tasks, promo, remaining, ex>>

\* ------------------------------------------------- promotion
\* the tail shared by run_download_queue's finally, run_download's finally and
\* /api/cancel: download_active = False; if the queue is not empty pop its
\* head and start a thread that will run _process_queued_download on it
ReleaseAndPromote ==
    /\ download_active' = FALSE
    /\ IF download_queue # <<>>
       THEN /\ download_queue' = Tail(download_queue)
            /\ promo' = promo \cup {Head(download_queue)}
       ELSE UNCHANGED <<download_queue, promo>>

\* _process_queued_download(queue_item), run by the promotion thread
ProcessQueuedDownload(n) ==
    /\ n \in promo
    /\ promo' = promo \ {n}
    /\ download_active' = TRUE
    /\ LET i == FirstIdx({i0 \in DOMAIN disk : disk[i0].task_id = tasks[n].task_id /\ disk[i0].status = "Queued"}) IN
       /\ history' = IF i = 0 THEN disk ELSE SetStatus(disk, i, "Downloading")
       /\ disk' = history'
    /\ wpc' = [wpc EXCEPT ![n] = "download"]
    /\ UNCHANGED <<download_queue, tasks, handler, remaining, ex>>

\* ------------------------------------------------- POST /api/cancel
\* history = load_history(); the first record with this url and a downloading
\* status becomes Canceled in the loaded copy; request_cancel(task_id) when one
\* was found; save_history(history); then, found or not: download_active =
\* False, pop and promote; the answer is success in both cases.
\* (request_cancel only asks: the transfer may still end with any outcome of
\* TransferEnd. Nothing but in-memory work separates the load from the save, so
\* they are one step.)
Cancel ==
    /\ handler.op = "idle"
    /\ \E u \in Urls :
        LET i == FirstIdx({i0 \in DOMAIN disk : disk[i0].url = u /\ disk[i0].status \in CancelStatuses}) IN
        /\ disk' = IF i = 0 THEN disk ELSE SetStatus(disk, i, "Canceled")
        /\ handler' = Resp("cancel", IF i = 0 THEN 0 ELSE disk[i].n, 200, FALSE, u)
    /\ ReleaseAndPromote
    /\ UNCHANGED <<history, tasks, wpc, remaining, ex>>

\* ------------------------------------------------- POST /api/queue/clear
\* cleared_count = len(config.download_queue)
ClearCount ==
    /\ handler.op = "idle"
    /\ handler' = [Idle EXCEPT !.op = "clear", !.pc = "clear", !.k = Len(download_queue)]
    /\ UNCHANGED <<download_active, download_queue, history, disk, tasks, wpc, promo, remaining, ex>>

\* config.download_queue.clear(); every Queued record of the loaded history
\* becomes Canceled; save_history(history); response
ClearQueue ==
    /\ handler.op = "clear" /\ handler.pc = "clear"
    /\ download_queue' = <<>>
    /\ disk' = [i \in DOMAIN disk |->
                 IF disk[i].status = "Queued" THEN [disk[i] EXCEPT !.status = "Canceled"] ELSE disk[i]]
    /\ handler' = Resp("clear", 0, 200, FALSE, handler.k)
    /\ UNCHANGED <<download_active, history, tasks, wpc, promo, remaining, ex>>

\* ------------------------------------------------- POST /api/queue/remove
\* the ids a client can name: those handed out so far, and one never handed out
KnownTaskIds == {tasks[n].task_id : n \in DOMAIN tasks} \cup {0}

\* for idx, item in enumerate(config.download_queue): if item task_id matches
RemoveFind ==
    /\ handler.op = "idle"
    /\ \E tid \in KnownTaskIds :
        LET idx == FirstIdx({i0 \in DOMAIN download_queue : tasks[download_queue[i0]].task_id = tid}) IN
        IF idx = 0
        THEN handler' = Resp("remove", 0, 404, FALSE, tid)
        ELSE handler' = [Idle EXCEPT !.op = "remove", !.pc = "pop", !.arg = tid, !.k = idx]
    /\ UNCHANGED <<download_active, download_queue, history, disk, tasks, wpc, promo, remaining, ex>>

\* removed_item = config.download_queue.pop(idx) (IndexError when a worker
\* shortened the queue meanwhile: caught, answered 500); then the first record
\* of the loaded history with this task_id and status Queued becomes Canceled
RemovePop ==
    /\ handler.op = "remove" /\ handler.pc = "pop"
    /\ IF handler.k > Len(download_queue)
       THEN /\ handler' = Resp("remove", 0, 500, FALSE, handler.arg)
            /\ UNCHANGED <<download_queue, disk>>
       ELSE /\ download_queue' = RemoveAt(download_queue, handler.k)
            /\ LET i == FirstIdx({i0 \in DOMAIN disk : disk[i0].task_id = handler.arg /\ disk[i0].status = "Queued"}) IN
               disk' = IF i = 0 THEN disk ELSE SetStatus(disk, i, "Canceled")
            /\ handler' = Resp("remove", download_queue[handler.k], 200, FALSE, handler.arg)
    /\ UNCHANGED <<download_active, history, tasks, wpc, promo, remaining, ex>>

\* self._send_json(...): the answer leaves and the server reads the next request
SendJson ==
    /\ handler.pc = "send"
    /\ handler' = Idle
    /\ UNCHANGED <<download_active, download_queue, history, disk, tasks, wpc, promo, remaining, ex>>

\* ------------------------------------------------- worker threads
\* the status the transfer primitive publishes when a transfer ends: the first
\* record of config.history with this url and an in-progress status
WriteTerminal(n, st) ==
    LET i == FirstIdx({i0 \in DOMAIN history : history[i0].url = tasks[n].url /\ history[i0].status \in TerminalStatuses}) IN
    IF i = 0 THEN UNCHANGED <<history, disk>>
    ELSE /\ history' = SetStatus(history, i, st)
         /\ disk' = history'

AfterTransferAlwaysReleases(n) == "finally"

AfterTransfer(n) == IF tasks[n].mode = "now" THEN "done" ELSE "finally"

\* download_func(...) returns or raises. outcome "archive": the payload is on
\* disk and has to be extracted; "ok"/"error": the primitive publishes the
\* terminal status; "abort": it raised, or honoured a cancel request, and
\* published nothing
TransferEnd(n) ==
    /\ wpc[n] = "download"
    /\ \E outcome \in {"archive", "ok", "error", "abort"} :
        CASE outcome = "archive" ->
                /\ wpc' = [wpc EXCEPT ![n] = "extract"]
                /\ UNCHANGED <<history, disk>>
          [] outcome = "ok" ->
                /\ wpc' = [wpc EXCEPT ![n] = AfterTransfer(n)]
                /\ WriteTerminal(n, "Download_OK")
          [] outcome = "error" ->
                /\ wpc' = [wpc EXCEPT ![n] = AfterTransfer(n)]
                /\ WriteTerminal(n, "Erreur")
          [] OTHER ->
                /\ wpc' = [wpc EXCEPT ![n] = AfterTransfer(n)]
                /\ UNCHANGED <<history, disk>>
    /\ UNCHANGED <<download_active, download_queue, tasks, promo, handler, remaining, ex>>

\* _update_extraction_progress: the first record of config.history with an
\* extractable status and this url becomes Extracting; the list is saved only
\* when save_interval has elapsed since the last save
UpdateExtractionProgress(n) ==
    /\ wpc[n] = "extract"
    /\ LET i == FirstIdx({i0 \in DOMAIN history : history[i0].status \in ExtractStatuses /\ history[i0].url = tasks[n].url}) IN
       /\ i # 0
       /\ history' = SetStatus(history, i, "Extracting")
       /\ \E elapsed \in BOOLEAN : disk' = IF elapsed THEN history' ELSE disk
    /\ UNCHANGED <<download_active, download_queue, tasks, wpc, promo, handler, remaining, ex>>

\* extract_zip / extract_rar returned (ok, message); the caller publishes the
\* terminal status
ExtractEnd(n) ==
    /\ wpc[n] = "extract"
    /\ wpc' = [wpc EXCEPT ![n] = AfterTransfer(n)]
    /\ \E ok \in BOOLEAN : WriteTerminal(n, IF ok THEN "Download_OK" ELSE "Erreur")
    /\ UNCHANGED <<download_active, download_queue, tasks, promo, handler, remaining, ex>>

\* the finally block of run_download_queue and of run_download
WorkerFinally(n) ==
    /\ wpc[n] = "finally"
    /\ wpc' = [wpc EXCEPT ![n] = "done"]
    /\ ReleaseAndPromote
    /\ UNCHANGED <<history, disk, tasks, handler, remaining, ex>>

Next ==
    \/ SubmitNow
    \/ SubmitQueueTest
    \/ SubmitQueueAppend
    \/ SubmitQueueRecord
    \/ SubmitQueueStart
    \/ Cancel
    \/ ClearCount
    \/ ClearQueue
    \/ RemoveFind
    \/ RemovePop
    \/ SendJson
    \/ \E n \in TaskNs : ProcessQueuedDownload(n)
    \/ \E n \in TaskNs : TransferEnd(n)
    \/ \E n \in TaskNs : UpdateExtractionProgress(n)
    \/ \E n \in TaskNs : ExtractEnd(n)
    \/ \E n \in TaskNs : WorkerFinally(n)

Spec == Init /\ [][Next]_vars

\* the same program with fewer requests from its clients
InitFew ==
    /\ download_active = FALSE
    /\ download_queue = <<>>
    /\ history = <<>>
    /\ disk = <<>>
    /\ tasks = <<>>
    /\ wpc = [n \in TaskNs |-> "none"]
    /\ promo = {}
    /\ handler = Idle
    /\ remaining = FewTasks
    /\ ex = ExIdle

SpecFew == InitFew /\ [][Next]_vars

\* the scheduling the program can count on: a request being served goes on
\* to its answer (the server thread runs), every started thread runs, and a
\* transfer or an extraction that has begun comes to an end. Nothing makes a
\* client send another request
Fairness ==
    /\ WF_vars(SubmitQueueAppend)
    /\ WF_vars(SubmitQueueRecord)
    /\ WF_vars(SubmitQueueStart)
    /\ WF_vars(ClearQueue)
    /\ WF_vars(RemovePop)
    /\ WF_vars(SendJson)
    /\ \A n \in TaskNs :
        /\ WF_vars(ProcessQueuedDownload(n))
        /\ WF_vars(TransferEnd(n))
        /\ WF_vars(ExtractEnd(n))
        /\ WF_vars(WorkerFinally(n))

SpecFewFair == SpecFew /\ Fairness

\* ================================================= extract_zip (utils.py)
\* the task whose downloaded archive is extracted
ZipTask == 1

\* info.filename.count('/')
Depth(name) == IF name = "a/b" THEN 1 ELSE 0

\* the proper prefixes os.sep.join(parts[:i]) of a path
ParentsOf(name) == IF name = "a/b" THEN {"a"} ELSE {}

\* info.file_size, in chunks of chunk_size bytes
FileSize(st) == IF st \in {"absent", "empty"} THEN 0 ELSE 1

\* total_size = sum(info.file_size for info in zip_ref.infolist() ...)
TotalSize(m) == Cardinality({x \in ZipNames : FileSize(m[x]) = 1})

ConflictsNone(m) == {}

\* conflicts: the files of the archive that are also a parent directory of
\* another file of the archive
Conflicts(m) ==
    {p \in ZipNames : m[p] # "absent" /\ \E f \in ZipNames : m[f] # "absent" /\ p \in ParentsOf(f)}

\* files_to_extract, after the (stable) sort by depth
FilesToExtract(m) ==
    LET present == SelectSeq(ZipOrder, LAMBDA x : m[x] # "absent") IN
    SelectSeq(present, LAMBDA x : Depth(x) = 0) \o SelectSeq(present, LAMBDA x : Depth(x) = 1)

\* zip_ref.testzip(): reads every entry in archive order; "raise" when the
\* first unsound entry cannot be inflated, the name of the first entry with a
\* bad CRC-32 otherwise, "none" when every entry is sound
TestZip(m) ==
    LET bad == FirstIdx({i \in DOMAIN ZipOrder : m[ZipOrder[i]] \in {"badcrc", "baddata"}}) IN
    IF bad = 0 THEN "none"
    ELSE IF m[ZipOrder[bad]] = "baddata" THEN "raise"
    ELSE ZipOrder[bad]

\* return ok, message
ZipReturn(ok, msg) == [ex EXCEPT !.pc = "done", !.ok = ok, !.msg = msg]

ZipExceptBadZipOnly(e) ==
    IF e = "BadZipFile" THEN ZipReturn(FALSE, "corrupt_zip") ELSE [ex EXCEPT !.pc = "raised"]

\* the except clauses of extract_zip: what an exception of class e raised
\* inside the try block turns into
ZipExcept(e) ==
    CASE e = "BadZipFile" -> ZipReturn(FALSE, "corrupt_zip")
      [] e = "PermissionError" -> ZipReturn(FALSE, "permission_denied")
      [] OTHER -> ZipReturn(FALSE, "extraction_failed")

\* `if not success: return False, error_msg` after a platform handler
PlatformFailed == [ZipReturn(FALSE, "platform_failed") EXCEPT !.post = "failed"]

\* a directory entry of the archive with nothing below it
EmptyDir == "d"

\* os.makedirs(parent_dir, exist_ok=True): the directories made for the files
\* in w
DirsMade(w) == UNION {ParentsOf(f) : f \in w}

\* what the extraction has added to dest_dir so far
DestAdded == ex.written \cup DirsMade(ex.written)

\* new_isos = list(iso_after - iso_before)
NewIsos == IF ex.iso_before THEN {} ELSE ex.written \cap {"c.iso"}

\* the states extract_zip can be called in: the archive has been downloaded,
\* the record of its task says Downloading in config.history; the store says
\* the same, or Canceled when /api/cancel was served during the transfer
InitZip ==
    /\ \E canceled \in BOOLEAN :
        /\ download_active = ~canceled
        /\ disk = <<[n |-> ZipTask, task_id |-> 1, url |-> UrlOf(ZipTask),
                     status |-> IF canceled THEN "Canceled" ELSE "Downloading",
                     timestamp |-> 1]>>
    /\ download_queue = <<>>
    /\ history = <<[n |-> ZipTask, task_id |-> 1, url |-> UrlOf(ZipTask), status |-> "Downloading",
                     timestamp |-> 1]>>
    /\ tasks = <<[task_id |-> 1, url |-> UrlOf(ZipTask), mode |-> "queue"]>>
    /\ wpc = [n \in TaskNs |-> IF n = ZipTask THEN "extract" ELSE "none"]
    /\ promo = {}
    /\ handler = Idle
    /\ remaining = 0
    /\ \E z, hd, b \in BOOLEAN, m \in [ZipNames -> MemberStates], d \in Dests :
        /\ z \/ (m = ExIdle.members /\ ~hd)
        /\ ex = [ExIdle EXCEPT !.pc = "open", !.iszip = z, !.members = m, !.hasdir = hd,
                               !.dest = d, !.iso_before = b, !.exists = TRUE]

\* _update_extraction_progress(url, ...), called after each chunk written; the
\* list is saved when save_interval has elapsed, and an exception of
\* save_history is caught and logged: the store is then left as it was
ExtractionProgressWrite(u) ==
    LET i == FirstIdx({i0 \in DOMAIN history : history[i0].status \in ExtractStatuses /\ history[i0].url = u}) IN
    IF i = 0 THEN UNCHANGED <<history, disk>>
    ELSE /\ history' = SetStatus(history, i, "Extracting")
         /\ \E elapsed \in BOOLEAN : disk' = IF elapsed THEN history' ELSE disk

\* zipfile.ZipFile(zip_path) (BadZipFile when the file is no ZIP archive);
\* zip_ref.testzip(), whose result is dropped; the conflicts; total_size and
\* the early return on an archive without data; files_to_extract
ExtractZipOpen ==
    /\ ex.pc = "open"
    /\ IF ~ex.iszip
       THEN ex' = ZipExcept("BadZipFile")
       ELSE LET r == TestZip(ex.members) IN
            IF r = "raise"
            THEN ex' = [ZipExcept("zlib.error") EXCEPT !.testzip = r]
            ELSE IF TotalSize(ex.members) = 0
            THEN ex' = [ZipReturn(TRUE, "empty") EXCEPT !.testzip = r]
            ELSE ex' = [ex EXCEPT !.pc = "extract", !.testzip = r,
                                  !.todo = FilesToExtract(ex.members)]
    /\ UNCHANGED <<download_active, download_queue, history, disk, tasks, wpc, promo,
                   handler, remaining>>

\* one turn of `for info in files_to_extract`: a conflicting file is skipped;
\* otherwise the parent directory is made and the file written chunk by chunk
\* (PermissionError, any other error, or BadZipFile at the end of an entry
\* with a bad CRC-32, end the extraction)
ExtractZipEntry ==
    /\ ex.pc = "extract" /\ ex.todo # <<>>
    /\ LET name == Head(ex.todo)
           st == ex.members[name]
           next == [ex EXCEPT !.todo = Tail(@), !.written = @ \cup {name}] IN
       IF name \in Conflicts(ex.members)
       THEN /\ ex' = [ex EXCEPT !.todo = Tail(@)]
            /\ UNCHANGED <<history, disk>>
       ELSE \E err \in {"none", "permission", "other"} :
            CASE err = "permission" ->
                    /\ ex' = ZipExcept("PermissionError")
                    /\ UNCHANGED <<history, disk>>
              [] err = "other" ->
                    /\ ex' = ZipExcept("OSError")
                    /\ UNCHANGED <<history, disk>>
              [] OTHER ->
                    CASE st = "empty" ->
                            /\ ex' = next
                            /\ UNCHANGED <<history, disk>>
                      [] st = "good" ->
                            /\ ex' = next
                            /\ ExtractionProgressWrite(tasks[ZipTask].url)
                      [] OTHER ->
                            /\ ex' = ZipExcept(IF st = "badcrc" THEN "BadZipFile" ELSE "zlib.error")
                            /\ \E wrote \in BOOLEAN :
                                IF wrote THEN ExtractionProgressWrite(tasks[ZipTask].url)
                                ELSE UNCHANGED <<history, disk>>
    /\ UNCHANGED <<download_active, download_queue, tasks, wpc, promo, handler, remaining>>

\* _handle_special_platforms, once every file is written: handle_xbox when
\* the folder is xbox and the extraction brought a new .iso; handle_ps3,
\* handle_dos, handle_scummvm or handle_psvita for their folders (none of them
\* touches the history: they succeed, fail, or raise from a statement outside
\* their own try blocks); nothing otherwise
HandleSpecialPlatforms ==
    /\ ex.pc = "extract" /\ ex.todo = <<>>
    /\ CASE ex.dest = "xbox" ->
                ex' = IF NewIsos # {} THEN [ex EXCEPT !.pc = "xbox", !.post = "running"]
                      ELSE [ex EXCEPT !.pc = "finalize"]
         [] ex.dest = "special" ->
                \E outcome \in {"ok", "failed", "raise"} :
                    ex' = CASE outcome = "ok" -> [ex EXCEPT !.pc = "finalize", !.post = "ok"]
                            [] outcome = "failed" -> PlatformFailed
                            [] OTHER -> [ZipExcept("Exception") EXCEPT !.post = "failed"]
         [] OTHER ->
                ex' = [ex EXCEPT !.pc = "finalize"]
    /\ UNCHANGED <<download_active, download_queue, history, disk, tasks, wpc, promo,
                   handler, remaining>>

\* handle_xbox up to the conversion loop: the tool cannot be made executable
\* (return False), or the first record of config.history with this url and a
\* status among Extracting, Telechargement, Downloading becomes Converting and
\* the list is saved
HandleXboxStart ==
    /\ ex.pc = "xbox"
    /\ \E executable \in BOOLEAN :
        IF ~executable
        THEN /\ ex' = PlatformFailed
             /\ UNCHANGED <<history, disk>>
        ELSE /\ ex' = [ex EXCEPT !.pc = "convert"]
             /\ LET i == FirstIdx({i0 \in DOMAIN history : history[i0].url = tasks[ZipTask].url
                                       /\ history[i0].status \in ExtractStatuses}) IN
                IF i = 0 THEN UNCHANGED <<history, disk>>
                ELSE /\ history' = SetStatus(history, i, "Converting")
                     /\ disk' = history'
    /\ UNCHANGED <<download_active, download_queue, tasks, wpc, promo, handler, remaining>>

\* handle_xbox, the conversion of the new image and what follows: the tool
\* fails or the image is gone (the record becomes Error, return False), the
\* call raises (return False), or the conversion succeeds: the progress of the
\* Converting record is saved, then that record becomes Download_OK and the
\* list is saved again
HandleXboxConvert ==
    /\ ex.pc = "convert"
    /\ \E outcome \in {"ok", "returncode", "gone", "raise"} :
        CASE outcome = "ok" ->
                /\ ex' = [ex EXCEPT !.pc = "finalize", !.post = "ok"]
                /\ LET i == FirstIdx({i0 \in DOMAIN history : history[i0].url = tasks[ZipTask].url
                                          /\ history[i0].status = "Converting"}) IN
                   IF i = 0 THEN UNCHANGED <<history, disk>>
                   ELSE /\ history' = SetStatus(history, i, "Download_OK")
                        /\ disk' = history'
          [] outcome = "raise" ->
                /\ ex' = PlatformFailed
                /\ UNCHANGED <<history, disk>>
          [] OTHER ->
                /\ ex' = PlatformFailed
                /\ LET i == FirstIdx({i0 \in DOMAIN history : history[i0].url = tasks[ZipTask].url
                                          /\ history[i0].status \in {"Converting"} \cup ExtractStatuses}) IN
                   IF i = 0 THEN UNCHANGED <<history, disk>>
                   ELSE /\ history' = SetStatus(history, i, "Error")
                        /\ disk' = history'
    /\ UNCHANGED <<download_active, download_queue, tasks, wpc, promo, handler, remaining>>

\* _finalize_extraction: os.remove(archive_path); the answer is (True,
\* extracted) whether the removal succeeded or raised
FinalizeExtraction ==
    /\ ex.pc = "finalize"
    /\ \E removed \in BOOLEAN :
        ex' = [ZipReturn(TRUE, "extracted") EXCEPT !.exists = ~removed]
    /\ UNCHANGED <<download_active, download_queue, history, disk, tasks, wpc, promo,
                   handler, remaining>>

\* ------------------------------------------------- GET /api/progress, /api/history
\* status.startswith('Try '): the retry statuses of the transfer primitive
TryStatuses == {"Try 1/4"}

\* in_progress_statuses of /api/progress
InProgressStatuses == {"Downloading", "Telechargement", "Connecting", "Extracting"}

\* included_statuses of /api/history
IncludedStatuses ==
    {"Download_OK", "Erreur", "error", "Canceled", "Already_Present",
     "Queued", "Downloading", "Telechargement", "Connecting", "Extracting"}

\* downloads[url] = {...} for each entry with an in-progress status, in the
\* order of the file: a later entry with the same url replaces an earlier one
ProgressQuery(h) ==
    LET hit == {i \in DOMAIN h : h[i].status \in InProgressStatuses \cup TryStatuses} IN
    [u \in {h[i].url : i \in hit} |->
        h[CHOOSE i \in hit : h[i].url = u /\ \A j \in hit : h[j].url = u => j <= i]]

\* visible_history, then visible_history.sort(key=timestamp, reverse=True):
\* a stable sort, entries with equal timestamps keep the order of the file
HistoryQuery(h) ==
    LET vis == SelectSeq(h, LAMBDA e : e.status \in IncludedStatuses \cup TryStatuses)
        pos(i) == 1 + Cardinality({j \in DOMAIN vis : vis[j].timestamp > vis[i].timestamp})
                    + Cardinality({j \in DOMAIN vis : j < i /\ vis[j].timestamp = vis[i].timestamp})
    IN [k \in DOMAIN vis |-> vis[CHOOSE i \in DOMAIN vis : pos(i) = k]]

\* GET /api/progress: load_history(), filter, answer
ApiProgress ==
    /\ handler.op = "idle"
    /\ handler' = Resp("progress", 0, 200, FALSE, ProgressQuery(disk))
    /\ UNCHANGED <<download_active, download_queue, history, disk, tasks, wpc, promo,
                   remaining, ex>>

\* GET /api/history: load_history(), filter, sort, answer
ApiHistory ==
    /\ handler.op = "idle"
    /\ handler' = Resp("history", 0, 200, FALSE, HistoryQuery(disk))
    /\ UNCHANGED <<download_active, download_queue, history, disk, tasks, wpc, promo,
                   remaining, ex>>

\* the extraction on its worker thread, and the web server answering the two
\* queries meanwhile
NextZip ==
    \/ ExtractZipOpen
    \/ ExtractZipEntry
    \/ HandleSpecialPlatforms
    \/ HandleXboxStart
    \/ HandleXboxConvert
    \/ FinalizeExtraction
    \/ ApiProgress
    \/ ApiHistory
    \/ SendJson

SpecZip == InitZip /\ [][NextZip]_vars

\* ================================================= extract_rar (utils.py)
\* files_to_extract: the rows of the `unrar l -v` listing that are no
\* directory, in the order of the listing
RarFiles(m) == SelectSeq(ZipOrder, LAMBDA x : m[x] # "absent")

\* a return statement inside the try block of extract_rar: the result is
\* fixed, the finally clause has still to run
RarReturn(ok, msg) == [ex EXCEPT !.pc = "cleanup", !.ok = ok, !.msg = msg]

\* `except Exception as e: return False, ...` of extract_rar
RarExcept == RarReturn(FALSE, "extraction_failed")

\* the states extract_rar can be called in: as for extract_zip; the archive
\* lists files of size 0 or more; the caller may have put it in dest_dir
InitRar ==
    /\ \E canceled \in BOOLEAN :
        /\ download_active = ~canceled
        /\ disk = <<[n |-> ZipTask, task_id |-> 1, url |-> UrlOf(ZipTask),
                     status |-> IF canceled THEN "Canceled" ELSE "Downloading",
                     timestamp |-> 1]>>
    /\ download_queue = <<>>
    /\ history = <<[n |-> ZipTask, task_id |-> 1, url |-> UrlOf(ZipTask), status |-> "Downloading",
                     timestamp |-> 1]>>
    /\ tasks = <<[task_id |-> 1, url |-> UrlOf(ZipTask), mode |-> "queue"]>>
    /\ wpc = [n \in TaskNs |-> IF n = ZipTask THEN "extract" ELSE "none"]
    /\ promo = {}
    /\ handler = Idle
    /\ remaining = 0
    /\ \E m \in [ZipNames -> {"absent", "good", "empty"}], d \in Dests, i \in BOOLEAN :
        ex = [ExIdle EXCEPT !.pc = "rar_open", !.iszip = FALSE, !.members = m, !.dest = d,
                            !.inside = i, !.exists = TRUE]

\* os.makedirs(dest_dir); subprocess.run(unrar_cmd): the call raises (no such
\* program), the tool answers with a return code other than 0 and 1, or it is
\* there
ExtractRarCheck ==
    /\ ex.pc = "rar_open"
    /\ \E outcome \in {"ok", "unavailable", "raise"} :
        ex' = CASE outcome = "ok" -> [ex EXCEPT !.pc = "rar_list"]
                [] outcome = "unavailable" -> RarReturn(FALSE, "unrar_unavailable")
                [] OTHER -> RarExcept
    /\ UNCHANGED <<download_active, download_queue, history, disk, tasks, wpc, promo,
                   handler, remaining>>

\* unrar l -v and the parsing of its output: the call raises, fails, or gives
\* the files and their sizes; a listing without data is a failure
ExtractRarList ==
    /\ ex.pc = "rar_list"
    /\ \E outcome \in {"ok", "failed", "raise"} :
        ex' = CASE outcome = "raise" -> RarExcept
                [] outcome = "failed" -> RarReturn(FALSE, "rar_list_failed")
                [] OTHER ->
                    IF TotalSize(ex.members) = 0 THEN RarReturn(FALSE, "rar_empty")
                    ELSE [ex EXCEPT !.pc = "rar_extract", !.todo = RarFiles(ex.members)]
    /\ UNCHANGED <<download_active, download_queue, history, disk, tasks, wpc, promo,
                   handler, remaining>>

\* unrar x -y, one blocking call: it raises, ends with a return code other
\* than 0, or ends with 0
ExtractRarRun ==
    /\ ex.pc = "rar_extract"
    /\ \E outcome \in {"ok", "failed", "raise"} :
        ex' = CASE outcome = "raise" -> RarExcept
                [] outcome = "failed" -> RarReturn(FALSE, "extraction_failed")
                [] OTHER -> [ex EXCEPT !.pc = "rar_verify"]
    /\ UNCHANGED <<download_active, download_queue, history, disk, tasks, wpc, promo,
                   handler, remaining>>

\* one turn of `for i, (expected_file, file_size) in enumerate(...)`: the file
\* is not there (nothing happens), or it is: chmod (which may raise) and the
\* progress update
ExtractRarVerify ==
    /\ ex.pc = "rar_verify" /\ ex.todo # <<>>
    /\ \E outcome \in {"missing", "found", "raise"} :
        CASE outcome = "missing" ->
                /\ ex' = [ex EXCEPT !.todo = Tail(@)]
                /\ UNCHANGED <<history, disk>>
          [] outcome = "raise" ->
                /\ ex' = [RarExcept EXCEPT !.written = @ \cup {Head(ex.todo)}]
                /\ UNCHANGED <<history, disk>>
          [] OTHER ->
                /\ ex' = [ex EXCEPT !.todo = Tail(@), !.written = @ \cup {Head(ex.todo)}]
                /\ ExtractionProgressWrite(tasks[ZipTask].url)
    /\ UNCHANGED <<download_active, download_queue, tasks, wpc, promo, handler, remaining>>

\* the chmod of the directories, then _handle_special_platforms(dest_dir,
\* rar_path, before_dirs): no iso_before, so never handle_xbox; the handler of
\* a ps3 / dos / scummvm / psvita folder succeeds, fails or raises. before_dirs
\* holds directories only: handle_dos and handle_scummvm take every file that
\* was in dest_dir for a new item and move it into the game folder, the archive
\* among them when it lies in dest_dir
RarSpecialPlatforms ==
    /\ ex.pc = "rar_verify" /\ ex.todo = <<>>
    /\ IF ex.dest = "special"
       THEN \E outcome \in {"ok", "failed", "raise"}, moves \in BOOLEAN :
            /\ moves => (outcome = "ok" /\ ex.inside)
            /\ ex' = CASE outcome = "ok" ->
                            [ex EXCEPT !.pc = "rar_finalize", !.post = "ok",
                                       !.moved = moves, !.exists = ~moves]
                       [] outcome = "failed" ->
                            [RarReturn(FALSE, "platform_failed") EXCEPT !.post = "failed"]
                       [] OTHER -> [RarExcept EXCEPT !.post = "failed"]
       ELSE \E raises \in BOOLEAN :
            ex' = IF raises THEN RarExcept ELSE [ex EXCEPT !.pc = "rar_finalize"]
    /\ UNCHANGED <<download_active, download_queue, history, disk, tasks, wpc, promo,
                   handler, remaining>>

\* return _finalize_extraction(rar_path, dest_dir, url): (True, extracted)
\* whether os.remove succeeded or raised
RarFinalize ==
    /\ ex.pc = "rar_finalize"
    /\ \E removed \in BOOLEAN :
        /\ removed => ex.exists
        /\ ex' = [RarReturn(TRUE, "extracted") EXCEPT !.exists = @ /\ ~removed]
    /\ UNCHANGED <<download_active, download_queue, history, disk, tasks, wpc, promo,
                   handler, remaining>>

\* finally: if os.path.exists(rar_path): try os.remove(rar_path), an error of
\* which is logged; then the result leaves extract_rar
RarCleanup ==
    /\ ex.pc = "cleanup"
    /\ \E removed \in BOOLEAN :
        /\ removed => ex.exists
        /\ ex' = [ex EXCEPT !.pc = "done", !.exists = @ /\ ~removed]
    /\ UNCHANGED <<download_active, download_queue, history, disk, tasks, wpc, promo,
                   handler, remaining>>

NextRar ==
    \/ ExtractRarCheck
    \/ ExtractRarList
    \/ ExtractRarRun
    \/ ExtractRarVerify
    \/ RarSpecialPlatforms
    \/ RarFinalize
    \/ RarCleanup

SpecRar == InitRar /\ [][NextRar]_vars

\* extract_zip and extract_rar side by side
InitArchive == InitZip \/ InitRar

NextArchive == NextZip \/ NextRar

SpecArchive == InitArchive /\ [][NextArchive]_vars

\* ================== handle_dos, handle_scummvm, handle_psvita (utils.py)
\* The three handlers are modelled on the top level of dest_dir, under their
\* own specification SpecPlatform. Here `ex` holds: pc, the position in the
\* handler; platform; top0 and top, what each name of the top level was when
\* the handler was called and is now; before, the before-set the extractor
\* handed over; new, the names the extraction really added; new_items, the
\* list the handler computed; todo, the items still to be moved; inside, the
\* names now lying in the game folder; renamed, the directory that became the
\* game folder; tries, the renames attempted; marker, the .scummvm file
\* (the .psvita file of dest_dir) is there; game_folder, the directory
\* handle_psvita took for the game; ux0, the inner zip has been extracted to
\* ux0/app; ok and msg, the pair returned.

\* the archive is Game.zip or Game.rar: extracted_basename
Basename == "Game"

\* names an entry of the top level of dest_dir may have
TopNames == {"GameX", "run.exe", "images", "Game", "Game.pc"}

\* what a name may be when it is there
KindsOf(x) ==
    CASE x \in {"GameX", "Game"} -> {"dir", "file"}
      [] x = "run.exe" -> {"file"}
      [] OTHER -> {"dir"}

\* item.endswith(suffix)
EndsWith(x, suffix) ==
    \/ (x = "Game.pc" /\ suffix = ".pc")
    \/ (x = "run.exe" /\ suffix = ".exe")

\* ignore_names of handle_dos, of handle_scummvm and of handle_psvita
IgnoreNames(platform) == {platform, "images", "videos", "manuals", "media"}

\* the suffix of the names the handler leaves alone
OwnSuffix(platform) ==
    CASE platform = "dos" -> ".pc"
      [] platform = "scummvm" -> ".scummvm"
      [] OTHER -> ".psvita"

\* target_name of handle_dos, game_folder_name of handle_scummvm
TargetName(platform) == IF platform = "dos" THEN "Game.pc" ELSE Basename

\* max_retries of handle_dos
MaxRetries == 3

\* new_items, from the listing `after` of dest_dir and the before-set
NewItemsOf(platform, after, before) ==
    {x \in after \ before : x \notin IgnoreNames(platform) /\ ~EndsWith(x, OwnSuffix(platform))}

\* return ok, message
PostReturn(ok, msg) == [ex EXCEPT !.pc = "done", !.ok = ok, !.msg = msg]

MoveItemLeavesCopy(e, x) ==
    [e EXCEPT !.todo = @ \ {x}, !.inside = @ \cup {x}]

\* shutil.move(src_path, dst_path) of the top-level item x, done
MoveItem(e, x) ==
    [e EXCEPT !.top[x] = "absent", !.todo = @ \ {x}, !.inside = @ \cup {x}]

\* the states a handler can be called in: the extraction is over; each name is
\* absent, was there before, or has been added by the extraction; extract_zip
\* hands over every name that was there before (before_items), extract_rar
\* the directories only (before_dirs)
InitPlatform ==
    /\ download_active = TRUE
    /\ download_queue = <<>>
    /\ history = <<[n |-> ZipTask, task_id |-> 1, url |-> UrlOf(ZipTask), status |-> "Extracting",
                     timestamp |-> 1]>>
    /\ disk = history
    /\ tasks = <<[task_id |-> 1, url |-> UrlOf(ZipTask), mode |-> "queue"]>>
    /\ wpc = [n \in TaskNs |-> IF n = ZipTask THEN "extract" ELSE "none"]
    /\ promo = {}
    /\ handler = Idle
    /\ remaining = 0
    /\ \E p \in {"dos", "scummvm", "psvita"}, whole \in BOOLEAN,
          t \in [TopNames -> {"absent", "dir", "file"}], old \in SUBSET TopNames :
        /\ \A x \in TopNames : t[x] = "absent" \/ t[x] \in KindsOf(x)
        /\ \A x \in old : t[x] # "absent"
        /\ ex = [pc |-> "scan", platform |-> p, top0 |-> t, top |-> t,
                 before |-> IF whole THEN old ELSE {x \in old : t[x] = "dir"},
                 new |-> {x \in TopNames : t[x] # "absent"} \ old,
                 listed |-> FALSE, new_items |-> {}, todo |-> {}, inside |-> {},
                 renamed |-> "", tries |-> 0, marker |-> FALSE,
                 game_folder |-> "", ux0 |-> FALSE, ok |-> FALSE, msg |-> ""]

\* the three handlers up to their first branch: os.listdir(dest_dir), an error of
\* which leaves after_items empty; new_items; (True, None) when there is none
PlatformScan ==
    /\ ex.pc = "scan"
    /\ \E listed \in BOOLEAN :
        LET after == IF listed THEN {x \in TopNames : ex.top[x] # "absent"} ELSE {}
            items == NewItemsOf(ex.platform, after, ex.before)
            e == [ex EXCEPT !.listed = listed, !.new_items = items, !.todo = items] IN
        ex' = IF items = {} THEN [e EXCEPT !.pc = "done", !.ok = TRUE]
              ELSE IF ex.platform = "scummvm" THEN [e EXCEPT !.pc = "folder"]
              ELSE IF ex.platform = "psvita" THEN [e EXCEPT !.pc = "find"]
              ELSE IF Cardinality(items) = 1 /\ \A x \in items : ex.top[x] = "dir"
                   THEN [e EXCEPT !.pc = "rename"]
                   ELSE [e EXCEPT !.pc = "mkdir"]
    /\ UNCHANGED <<download_active, download_queue, history, disk, tasks, wpc, promo,
                   handler, remaining>>

\* handle_dos, case 1, one turn of `for attempt in range(max_retries)`: an
\* existing target is deleted (rmtree with ignore_errors may leave it), then
\* os.rename; when it raises, the next attempt follows, the last one returns
\* False
DosRename ==
    /\ ex.pc = "rename"
    /\ \E wiped, renamed \in BOOLEAN :
        LET item == CHOOSE x \in ex.new_items : TRUE
            target == TargetName("dos")
            e == [ex EXCEPT !.tries = @ + 1,
                            !.top[target] = IF wiped THEN "absent" ELSE @,
                            !.inside = IF wiped THEN {} ELSE @] IN
        /\ renamed => (wiped \/ ex.top[target] = "absent")
        /\ ex' = IF renamed
                 THEN [e EXCEPT !.pc = "done", !.ok = TRUE, !.top[item] = "absent",
                                !.top[target] = "dir", !.renamed = item, !.todo = {}]
                 ELSE IF e.tries < MaxRetries THEN e
                 ELSE [e EXCEPT !.pc = "done", !.ok = FALSE, !.msg = "rename_failed"]
    /\ UNCHANGED <<download_active, download_queue, history, disk, tasks, wpc, promo,
                   handler, remaining>>

\* handle_dos, case 2, up to the loop: an existing target is deleted, then
\* os.makedirs(target_path, exist_ok=True), an error of which returns False
DosMkdir ==
    /\ ex.pc = "mkdir"
    /\ \E made \in BOOLEAN :
        ex' = IF made
              THEN [ex EXCEPT !.pc = "move", !.top[TargetName("dos")] = "dir", !.inside = {}]
              ELSE PostReturn(FALSE, "organise_failed")
    /\ UNCHANGED <<download_active, download_queue, history, disk, tasks, wpc, promo,
                   handler, remaining>>

\* handle_dos, case 2, one turn of `for item in new_items` (the list comes
\* from a set: any order): the move succeeds; the move raises; or the move
\* succeeds and the chmod of the moved file raises. After the last item:
\* (True, None)
DosMove ==
    /\ ex.pc = "move" /\ ex.platform = "dos"
    /\ \E item \in ex.todo, outcome \in {"ok", "move_raises", "chmod_raises"} :
        /\ outcome = "chmod_raises" => ex.top[item] = "file"
        /\ ex' = CASE outcome = "move_raises" -> PostReturn(FALSE, "move_failed")
                   [] outcome = "chmod_raises" ->
                        [MoveItem(ex, item) EXCEPT !.pc = "done", !.ok = FALSE, !.msg = "move_failed"]
                   [] OTHER ->
                        LET e == MoveItem(ex, item) IN
                        IF e.todo = {} THEN [e EXCEPT !.pc = "done", !.ok = TRUE] ELSE e
    /\ UNCHANGED <<download_active, download_queue, history, disk, tasks, wpc, promo,
                   handler, remaining>>

\* handle_scummvm: the game folder is used when something of that name exists
\* (os.path.exists), made otherwise; an error of os.makedirs returns False
ScummvmFolder ==
    /\ ex.pc = "folder"
    /\ IF ex.top[TargetName("scummvm")] # "absent"
       THEN ex' = [ex EXCEPT !.pc = "move"]
       ELSE \E made \in BOOLEAN :
            ex' = IF made THEN [ex EXCEPT !.pc = "move", !.top[TargetName("scummvm")] = "dir"]
                  ELSE PostReturn(FALSE, "organise_failed")
    /\ UNCHANGED <<download_active, download_queue, history, disk, tasks, wpc, promo,
                   handler, remaining>>

\* handle_scummvm, one turn of `for item in new_items`: shutil.move raises when
\* the item is the game folder itself (a directory cannot be moved into
\* itself) and when what bears the name of the game folder is a file; it may
\* raise otherwise
ScummvmMove ==
    /\ ex.pc = "move" /\ ex.platform = "scummvm" /\ ex.todo # {}
    /\ \E item \in ex.todo, raises \in BOOLEAN :
        /\ (item = TargetName("scummvm") \/ ex.top[TargetName("scummvm")] = "file") => raises
        /\ ex' = IF raises THEN PostReturn(FALSE, "move_failed") ELSE MoveItem(ex, item)
    /\ UNCHANGED <<download_active, download_queue, history, disk, tasks, wpc, promo,
                   handler, remaining>>

\* handle_scummvm: the empty file <name>/<name>.scummvm is written, or the
\* open raises
ScummvmMarker ==
    /\ ex.pc = "move" /\ ex.platform = "scummvm" /\ ex.todo = {}
    /\ \E written \in BOOLEAN :
        ex' = IF written THEN [PostReturn(TRUE, "") EXCEPT !.marker = TRUE]
              ELSE PostReturn(FALSE, "marker_failed")
    /\ UNCHANGED <<download_active, download_queue, history, disk, tasks, wpc, promo,
                   handler, remaining>>

\* handle_psvita: the game folder is the first directory of new_items (the
\* list comes from a set: any order), (False, message) when there is none;
\* os.listdir of the folder, which may raise; (False, message) when no name
\* in it ends with .zip
PsvitaFind ==
    /\ ex.pc = "find"
    /\ LET dirs == {x \in ex.new_items : ex.top[x] = "dir"} IN
       IF dirs = {} THEN ex' = PostReturn(FALSE, "no_game_folder")
       ELSE \E g \in dirs, contents \in {"zip", "no_zip", "raises"} :
            ex' = CASE contents = "no_zip" -> [PostReturn(FALSE, "no_zip") EXCEPT !.game_folder = g]
                    [] contents = "raises" -> [PostReturn(FALSE, "psvita_error") EXCEPT !.game_folder = g]
                    [] OTHER -> [ex EXCEPT !.pc = "psv_marker", !.game_folder = g]
    /\ UNCHANGED <<download_active, download_queue, history, disk, tasks, wpc, promo,
                   handler, remaining>>

\* handle_psvita, step 1: the file "<game_folder> [<game_id>].psvita" is
\* written in dest_dir, or the open raises
PsvitaMarker ==
    /\ ex.pc = "psv_marker"
    /\ \E written \in BOOLEAN :
        ex' = IF written THEN [ex EXCEPT !.pc = "psv_extract", !.marker = TRUE]
              ELSE PostReturn(FALSE, "marker_failed")
    /\ UNCHANGED <<download_active, download_queue, history, disk, tasks, wpc, promo,
                   handler, remaining>>

\* handle_psvita, step 2: os.makedirs(ux0_app_dir) and extractall of the
\* inner zip; BadZipFile, another exception of the extraction, an exception
\* of makedirs each return False with their message
PsvitaExtract ==
    /\ ex.pc = "psv_extract"
    /\ \E outcome \in {"ok", "corrupt_zip", "extraction_failed", "psvita_error"} :
        ex' = IF outcome = "ok" THEN [ex EXCEPT !.pc = "psv_remove", !.ux0 = TRUE]
              ELSE PostReturn(FALSE, outcome)
    /\ UNCHANGED <<download_active, download_queue, history, disk, tasks, wpc, promo,
                   handler, remaining>>

\* handle_psvita, step 3: shutil.rmtree(game_folder_path), an exception of
\* which is logged only; (True, None)
PsvitaRemove ==
    /\ ex.pc = "psv_remove"
    /\ \E removed \in BOOLEAN :
        ex' = [PostReturn(TRUE, "") EXCEPT !.top[ex.game_folder] = IF removed THEN "absent" ELSE @]
    /\ UNCHANGED <<download_active, download_queue, history, disk, tasks, wpc, promo,
                   handler, remaining>>

NextPlatform ==
    \/ PlatformScan
    \/ DosRename
    \/ DosMkdir
    \/ DosMove
    \/ ScummvmFolder
    \/ ScummvmMove
    \/ ScummvmMarker
    \/ PsvitaFind
    \/ PsvitaMarker
    \/ PsvitaExtract
    \/ PsvitaRemove

SpecPlatform == InitPlatform /\ [][NextPlatform]_vars

\* ============================================== handle_ps3 (utils.py)
\* handle_ps3 is modelled on the files of dest_dir it touches, under its own
\* specification SpecPs3. Here `ex` holds: pc, the position in the handler;
\* os, config.OPERATING_SYSTEM; key_url, the url names the PlayStation 3
\* folder, so that a key url can be derived; iso, the encrypted ISO (the
\* first .iso of the listing) is in dest_dir, iso0, it was there when the
\* handler was called; dkey, a .dkey file is in dest_dir; keyzip, the downloaded
\* _temp_key_ archive is in dest_dir; decrypted, the decrypted ISO is there;
\* folder, the directory <iso-base>.ps3 is there; dkey_path, the handler
\* holds a key; steps, the steps completed so far, in order; ok and msg, the
\* pair returned.

\* return ok, message
Ps3Return(ok, msg) == [ex EXCEPT !.pc = "done", !.ok = ok, !.msg = msg]

\* the step is completed and the handler goes on at pc
Ps3Step(e, step, pc) == [e EXCEPT !.pc = pc, !.steps = Append(@, step)]

\* the states handle_ps3 can be called in: the extraction is over and has or
\* has not left an .iso in dest_dir; a key, a decrypted ISO or a .ps3 folder
\* of an earlier run may lie there
InitPs3 ==
    /\ download_active = TRUE
    /\ download_queue = <<>>
    /\ history = <<[n |-> ZipTask, task_id |-> 1, url |-> UrlOf(ZipTask), status |-> "Extracting",
                     timestamp |-> 1]>>
    /\ disk = history
    /\ tasks = <<[task_id |-> 1, url |-> UrlOf(ZipTask), mode |-> "queue"]>>
    /\ wpc = [n \in TaskNs |-> IF n = ZipTask THEN "extract" ELSE "none"]
    /\ promo = {}
    /\ handler = Idle
    /\ remaining = 0
    /\ \E o \in {"Windows", "Linux"}, k, i, d, c, f \in BOOLEAN :
        ex = [pc |-> "ps3_find", os |-> o, key_url |-> k, iso |-> i, iso0 |-> i, dkey |-> d,
              keyzip |-> FALSE, decrypted |-> c, folder |-> f, dkey_path |-> FALSE,
              steps |-> <<>>, ok |-> FALSE, msg |-> ""]

\* handle_ps3: os.listdir(dest_dir), an exception of which reaches the outer
\* handler; (False, message) when no .iso other than *_decrypted.iso is there
Ps3Find ==
    /\ ex.pc = "ps3_find"
    /\ \E listed \in BOOLEAN :
        ex' = IF ~listed THEN Ps3Return(FALSE, "ps3_error")
              ELSE IF ~ex.iso THEN Ps3Return(FALSE, "no_iso")
              ELSE [ex EXCEPT !.pc = "key"]
    /\ UNCHANGED <<download_active, download_queue, history, disk, tasks, wpc, promo,
                   handler, remaining>>

\* handle_ps3, step 1: with a key url the key archive is downloaded and its
\* .dkey extracted to dest_dir, every exception of which is logged only (the
\* archive stays when it was written and could not be read); without a key
\* so far, a .dkey lying in dest_dir is taken; (False, message) without any
Ps3Key ==
    /\ ex.pc = "key"
    /\ \E got \in {"none", "dkey", "no_dkey", "download_raises", "zip_raises"} :
        /\ (got = "none") = ~ex.key_url
        /\ LET e == CASE got = "dkey" -> [ex EXCEPT !.dkey = TRUE, !.dkey_path = TRUE]
                      [] got = "zip_raises" -> [ex EXCEPT !.keyzip = TRUE]
                      [] OTHER -> ex IN
           ex' = IF e.dkey_path \/ e.dkey THEN Ps3Step([e EXCEPT !.dkey_path = TRUE], "key", "decrypt")
                 ELSE [e EXCEPT !.pc = "done", !.ok = FALSE, !.msg = "no_key"]
    /\ UNCHANGED <<download_active, download_queue, history, disk, tasks, wpc, promo,
                   handler, remaining>>

Ps3DecryptDeletesFirst ==
    /\ ex.pc = "decrypt"
    /\ \E tool \in BOOLEAN, run \in {"zero", "nonzero", "raises"}, made \in BOOLEAN :
        /\ (ex.os = "Windows" => tool)
        /\ LET e == [ex EXCEPT !.iso = FALSE] IN
           ex' = IF ~tool THEN [e EXCEPT !.pc = "done", !.ok = FALSE, !.msg = "tool_missing"]
                 ELSE CASE run = "raises" -> [e EXCEPT !.pc = "done", !.ok = FALSE, !.msg = "ps3_error"]
                        [] run = "nonzero" ->
                            [e EXCEPT !.pc = "done", !.ok = FALSE, !.msg = "decrypt_failed",
                                      !.decrypted = @ \/ made]
                        [] OTHER -> Ps3Step([e EXCEPT !.decrypted = @ \/ made], "decrypt", "rm_iso")
    /\ UNCHANGED <<download_active, download_queue, history, disk, tasks, wpc, promo,
                   handler, remaining>>

\* handle_ps3, step 2: off Windows (False, message) when the ps3dec tool is
\* not there; subprocess.run of the decryption, an exception of which reaches
\* the outer handler; (False, message) when the return code is not 0. The
\* tool may or may not have written the decrypted ISO
Ps3Decrypt ==
    /\ ex.pc = "decrypt"
    /\ \E tool \in BOOLEAN, run \in {"zero", "nonzero", "raises"}, made \in BOOLEAN :
        /\ (ex.os = "Windows" => tool)
        /\ ex' = IF ~tool THEN Ps3Return(FALSE, "tool_missing")
                 ELSE CASE run = "raises" -> Ps3Return(FALSE, "ps3_error")
                        [] run = "nonzero" ->
                            [Ps3Return(FALSE, "decrypt_failed") EXCEPT !.decrypted = @ \/ made]
                        [] OTHER -> Ps3Step([ex EXCEPT !.decrypted = @ \/ made], "decrypt", "rm_iso")
    /\ UNCHANGED <<download_active, download_queue, history, disk, tasks, wpc, promo,
                   handler, remaining>>

\* handle_ps3: os.remove(iso_path) after the decryption, an exception of
\* which reaches the outer handler
Ps3RemoveIso ==
    /\ ex.pc = "rm_iso"
    /\ \E removed \in BOOLEAN :
        ex' = IF removed THEN Ps3Step([ex EXCEPT !.iso = FALSE], "rm_iso", "unpack")
              ELSE Ps3Return(FALSE, "ps3_error")
    /\ UNCHANGED <<download_active, download_queue, history, disk, tasks, wpc, promo,
                   handler, remaining>>

\* handle_ps3, step 3: os.makedirs of <iso-base>.ps3 (an exception reaches
\* the outer handler); off Windows (False, message) when 7zz is not there;
\* the archiver is run on the decrypted ISO: an exception, or a return code
\* above 2, returns (False, message); codes 1 and 2 are logged only
Ps3Unpack ==
    /\ ex.pc = "unpack"
    /\ \E made, tool \in BOOLEAN, run \in {"0", "1or2", "above2", "raises"} :
        /\ (ex.os = "Windows" => tool)
        /\ LET e == [ex EXCEPT !.folder = TRUE] IN
           ex' = IF ~made THEN Ps3Return(FALSE, "ps3_error")
                 ELSE IF ~tool THEN [e EXCEPT !.pc = "done", !.ok = FALSE, !.msg = "7z_missing"]
                 ELSE IF run \in {"above2", "raises"}
                      THEN [e EXCEPT !.pc = "done", !.ok = FALSE, !.msg = "iso_extraction_failed"]
                      ELSE Ps3Step(e, "unpack", "rm_decrypted")
    /\ UNCHANGED <<download_active, download_queue, history, disk, tasks, wpc, promo,
                   handler, remaining>>

\* handle_ps3, cleaning: os.remove(decrypted_iso_path), which raises when the
\* file is not there or cannot be removed: the outer handler returns False
Ps3RemoveDecrypted ==
    /\ ex.pc = "rm_decrypted"
    /\ \E removed \in BOOLEAN :
        /\ removed => ex.decrypted
        /\ ex' = IF removed THEN Ps3Step([ex EXCEPT !.decrypted = FALSE], "rm_decrypted", "rm_key")
                 ELSE Ps3Return(FALSE, "ps3_error")
    /\ UNCHANGED <<download_active, download_queue, history, disk, tasks, wpc, promo,
                   handler, remaining>>

\* handle_ps3, cleaning: the key file is removed when it exists, an exception
\* of which reaches the outer handler; (True, message)
Ps3RemoveKey ==
    /\ ex.pc = "rm_key"
    /\ \E removed \in BOOLEAN :
        ex' = IF removed \/ ~ex.dkey
              THEN [Ps3Step([ex EXCEPT !.dkey = FALSE], "rm_key", "done") EXCEPT !.ok = TRUE, !.msg = "done"]
              ELSE Ps3Return(FALSE, "ps3_error")
    /\ UNCHANGED <<download_active, download_queue, history, disk, tasks, wpc, promo,
                   handler, remaining>>

NextPs3 ==
    \/ Ps3Find
    \/ Ps3Key
    \/ Ps3Decrypt
    \/ Ps3RemoveIso
    \/ Ps3Unpack
    \/ Ps3RemoveDecrypted
    \/ Ps3RemoveKey

SpecPs3 == InitPs3 /\ [][NextPs3]_vars

\* ============================== handle_xbox over several images (utils.py)
\* The Xbox branch of _handle_special_platforms and the loop of handle_xbox
\* are modelled image by image under their own specification SpecXbox, for an
\* extract_zip into the xbox folder. The record of the task carries its
\* `progress` here. `ex` holds: pc, the position; os; iso_before and
\* iso_after, the images below dest_dir before and after the extraction;
\* todo, the images of the list not yet reached; passed, the images the
\* repack tool was run on; idx and total, of the loop; failed, a repack has
\* failed; ok and msg, the pair returned.

\* the .iso files that may lie below dest_dir
IsoNames == {"a.iso", "b.iso", "c.iso"}

\* return ok, message
XboxReturn(ok, msg) == [ex EXCEPT !.pc = "done", !.ok = ok, !.msg = msg]

\* `for entry in config.history: if entry.get("url") == url and
\* entry.get("status") in statuses: ...; save_history(config.history); break`
\* with the assignments status := st (kept when st is "") and progress := pr
\* (kept when pr is -1)
XboxWrite(statuses, st, pr) ==
    LET i == FirstIdx({i0 \in DOMAIN history : history[i0].url = tasks[ZipTask].url
                            /\ history[i0].status \in statuses}) IN
    IF i = 0 THEN UNCHANGED <<history, disk>>
    ELSE /\ history' = [history EXCEPT ![i].status = IF st = "" THEN @ ELSE st,
                                       ![i].progress = IF pr = -1 THEN @ ELSE pr]
         /\ disk' = history'

\* the states the Xbox branch can be entered in: extract_zip has written the
\* files, the record says Extracting in config.history; the store says the
\* same, or Canceled when /api/cancel was served meanwhile; the extraction
\* has added images to those that were there
InitXbox ==
    /\ \E canceled \in BOOLEAN :
        /\ download_active = ~canceled
        /\ disk = <<[n |-> ZipTask, task_id |-> 1, url |-> UrlOf(ZipTask),
                     status |-> IF canceled THEN "Canceled" ELSE "Extracting",
                     timestamp |-> 1, progress |-> 100]>>
    /\ download_queue = <<>>
    /\ history = <<[n |-> ZipTask, task_id |-> 1, url |-> UrlOf(ZipTask), status |-> "Extracting",
                     timestamp |-> 1, progress |-> 100]>>
    /\ tasks = <<[task_id |-> 1, url |-> UrlOf(ZipTask), mode |-> "queue"]>>
    /\ wpc = [n \in TaskNs |-> IF n = ZipTask THEN "extract" ELSE "none"]
    /\ promo = {}
    /\ handler = Idle
    /\ remaining = 0
    /\ \E o \in {"Windows", "Linux"}, b \in SUBSET IsoNames, a \in SUBSET IsoNames :
        /\ b \subseteq a
        /\ ex = [pc |-> "diff", os |-> o, iso_before |-> b, iso_after |-> a, todo |-> {},
                 passed |-> {}, idx |-> 0, total |-> 0, failed |-> FALSE,
                 ok |-> FALSE, msg |-> ""]

\* _handle_special_platforms, Xbox: new_isos = list(iso_after - iso_before);
\* handle_xbox is called when there is one, and nothing is done otherwise
XboxDiff ==
    /\ ex.pc = "diff"
    /\ LET new_isos == ex.iso_after \ ex.iso_before IN
       ex' = IF new_isos = {} THEN XboxReturn(TRUE, "")
             ELSE [ex EXCEPT !.pc = "start", !.todo = new_isos]
    /\ UNCHANGED <<download_active, download_queue, history, disk, tasks, wpc, promo,
                   handler, remaining>>

\* handle_xbox up to the loop: off Windows the tool that is not executable
\* and cannot be made so returns False; the images of the list are kept;
\* total; the first record with this url that is Extracting, Telechargement
\* or Downloading becomes Converting with progress 0, and the list is saved
XboxStart ==
    /\ ex.pc = "start"
    /\ \E executable \in BOOLEAN :
        /\ (ex.os = "Windows" => executable)
        /\ IF ~executable
           THEN /\ ex' = XboxReturn(FALSE, "permissions")
                /\ UNCHANGED <<history, disk>>
           ELSE /\ ex' = [ex EXCEPT !.pc = "repack", !.total = Cardinality(ex.todo)]
                /\ XboxWrite(ExtractStatuses, "Converting", 0)
    /\ UNCHANGED <<download_active, download_queue, tasks, wpc, promo, handler, remaining>>

\* handle_xbox, one turn of `for idx, iso_xbox_source in enumerate(iso_files,
\* start=1)` (the list comes from a set: any order): subprocess.run of the
\* repack tool, an exception of which reaches the outer handler (return
\* False); a return code other than 0, or an image that is gone afterwards,
\* makes the record Error and returns False; otherwise the progress of the
\* Converting record becomes int(idx / total * 100) and the list is saved
XboxRepack ==
    /\ ex.pc = "repack"
    /\ \E iso \in ex.todo, outcome \in {"ok", "returncode", "gone", "raises"} :
        LET e == [ex EXCEPT !.todo = @ \ {iso}, !.passed = @ \cup {iso}, !.idx = @ + 1] IN
        CASE outcome = "ok" ->
                /\ ex' = IF e.todo = {} THEN [e EXCEPT !.pc = "final"] ELSE e
                /\ XboxWrite({"Converting"}, "", (e.idx * 100) \div e.total)
          [] outcome = "raises" ->
                /\ ex' = [e EXCEPT !.pc = "done", !.ok = FALSE, !.failed = TRUE,
                                   !.msg = "conversion_error"]
                /\ UNCHANGED <<history, disk>>
          [] OTHER ->
                /\ ex' = [e EXCEPT !.pc = "done", !.ok = FALSE, !.failed = TRUE,
                                   !.msg = "conversion_failed"]
                /\ XboxWrite({"Converting"} \cup ExtractStatuses, "Error", -1)
    /\ UNCHANGED <<download_active, download_queue, tasks, wpc, promo, handler, remaining>>

\* handle_xbox after the loop: the Converting record becomes Download_OK with
\* progress 100, the list is saved; (True, message)
XboxFinal ==
    /\ ex.pc = "final"
    /\ ex' = XboxReturn(TRUE, "converted")
    /\ XboxWrite({"Converting"}, "Download_OK", 100)
    /\ UNCHANGED <<download_active, download_queue, tasks, wpc, promo, handler, remaining>>

NextXbox ==
    \/ XboxDiff
    \/ XboxStart
    \/ XboxRepack
    \/ XboxFinal

SpecXbox == InitXbox /\ [][NextXbox]_vars

\* ================================ _handle_special_platforms (utils.py)
\* The chain of tests of _handle_special_platforms is modelled test by test
\* under its own specification SpecDispatch; what a handler does is reduced
\* to its answer. `ex` holds: pc; test, the test reached; dest, dest_dir relative
\* to config.ROMS_FOLDER ("plain" for any other folder); extractor, the
\* caller; new_iso, the extraction has added an image; ran, the platform branches entered; touched, a handler has run and
\* may have changed dest_dir or the history; ok and msg, the pair returned.

\* dest_dir, relative to config.ROMS_FOLDER
DestDirs ==
    {"plain", "xbox", "xbox/xbox", "ps3", "ps3/ps3", "dos", "scummvm", "psvita", "psvita/psvita"}

\* the order of the tests
DispatchOrder == <<"xbox", "ps3", "dos", "scummvm", "psvita">>

\* the folders each test compares dest_dir with
FoldersOf(platform) ==
    CASE platform = "xbox" -> {"xbox", "xbox/xbox"}
      [] platform = "ps3" -> {"ps3", "ps3/ps3"}
      [] platform = "psvita" -> {"psvita", "psvita/psvita"}
      [] OTHER -> {platform}

\* iso_before is not None: extract_zip passes it, extract_rar does not
IsoBeforeGiven(extractor) == extractor = "zip"

\* the condition under which the branch of a platform is entered
Enters(platform, dest, extractor) ==
    /\ dest \in FoldersOf(platform)
    /\ platform = "xbox" => IsoBeforeGiven(extractor)

\* the states _handle_special_platforms can be called in
InitDispatch ==
    /\ download_active = TRUE
    /\ download_queue = <<>>
    /\ history = <<[n |-> ZipTask, task_id |-> 1, url |-> UrlOf(ZipTask), status |-> "Extracting",
                     timestamp |-> 1]>>
    /\ disk = history
    /\ tasks = <<[task_id |-> 1, url |-> UrlOf(ZipTask), mode |-> "queue"]>>
    /\ wpc = [n \in TaskNs |-> IF n = ZipTask THEN "extract" ELSE "none"]
    /\ promo = {}
    /\ handler = Idle
    /\ remaining = 0
    /\ \E d \in DestDirs, x \in {"zip", "rar"}, i \in BOOLEAN :
        ex = [pc |-> "chain", test |-> 1, dest |-> d, extractor |-> x, new_iso |-> i,
              ran |-> {}, touched |-> FALSE, ok |-> FALSE, msg |-> ""]

\* one test of the chain and its branch: the handler of the platform answers
\* (for Xbox: handle_xbox when there is a new image, nothing otherwise); a
\* failure returns (False, message); the PS3 branch returns in either case;
\* after the last test: (True, None)
DispatchStep ==
    /\ ex.pc = "chain"
    /\ LET platform == DispatchOrder[ex.test]
           next == IF ex.test = Len(DispatchOrder)
                   THEN [ex EXCEPT !.pc = "done", !.ok = TRUE]
                   ELSE [ex EXCEPT !.test = @ + 1] IN
       IF ~Enters(platform, ex.dest, ex.extractor) THEN ex' = next
       ELSE \E answer \in {"ok", "failed", "nothing"} :
            /\ (answer = "nothing") = (platform = "xbox" /\ ~ex.new_iso)
            /\ ex' = CASE answer = "failed" ->
                            [ex EXCEPT !.pc = "done", !.ok = FALSE, !.msg = "platform_failed",
                                       !.ran = @ \cup {platform}, !.touched = TRUE]
                       [] answer = "nothing" -> [next EXCEPT !.ran = @ \cup {platform}]
                       [] platform = "ps3" ->
                            [ex EXCEPT !.pc = "done", !.ok = TRUE,
                                       !.ran = @ \cup {platform}, !.touched = TRUE]
                       [] OTHER -> [next EXCEPT !.ran = @ \cup {platform}, !.touched = TRUE]
    /\ UNCHANGED <<download_active, download_queue, history, disk, tasks, wpc, promo,
                   handler, remaining>>

NextDispatch == DispatchStep

SpecDispatch == InitDispatch /\ [][NextDispatch]_vars

TypeOK ==
    /\ download_active \in BOOLEAN
    /\ \A i \in DOMAIN download_queue : download_queue[i] \in DOMAIN tasks
    /\ promo \subseteq DOMAIN tasks

\* ================================================================ claims
Range(s) == {s[i] : i \in DOMAIN s}

\* the transfer of task n has been started and has not ended
InFlight(n) == wpc[n] \in {"download", "extract"}

SerialInFlight == {n \in DOMAIN tasks : tasks[n].mode = "queue" /\ InFlight(n)}

\* the records of task n in a record list
RecordsOf(s, n) == {i \in DOMAIN s : s[i].n = n}

StatusOf(s, n) == {s[i].status : i \in RecordsOf(s, n)}

\* the steps of the program, as seen from a pair of states
IsSubmitNow == Len(tasks') = Len(tasks) + 1 /\ tasks'[Len(tasks')].mode = "now"
IsSubmitQueueAppend == handler.pc = "append" /\ handler'.pc = "record"
IsSubmitQueueRecord == handler.pc = "record" /\ handler'.pc = "send"
IsSubmitQueueStart == handler.pc = "start" /\ handler'.pc = "send"
IsCancel == handler.op = "idle" /\ handler'.op = "cancel"
IsRemoveNotFound == handler.op = "idle" /\ handler'.op = "remove" /\ handler'.pc = "send"
IsWorkerFinally(n) == wpc[n] = "finally" /\ wpc'[n] = "done"
IsPromotion(n) == n \in promo /\ n \notin promo'

\* C1: at most one transfer started through the serial slot (queue-mode start
\* or promotion) is in flight in every reachable state.
C1_AtMostOneSerialTransfer == Cardinality(SerialInFlight) <= 1

\* C2: the slot is never observed free while a promotion is pending (entry
\* popped, _process_queued_download not yet run) or while the FIFO is non-empty.
C2_SlotBusyAcrossHandoff ==
    download_active \/ (promo = {} /\ download_queue = <<>>)

\* C3: a mode=now submission starts its worker at once whatever the slot is,
\* never enters the FIFO, and neither the submission nor any later step of that
\* worker changes the slot, the FIFO or the pending promotions; every now task
\* submitted has its worker.
C3_NowBypassesSlot ==
    [][ /\ IsSubmitNow =>
            /\ wpc[Len(tasks')] = "none" /\ wpc'[Len(tasks')] = "download"
            /\ UNCHANGED <<download_active, download_queue, promo>>
        /\ \A n \in DOMAIN tasks :
            (tasks[n].mode = "now" /\ wpc'[n] # wpc[n]) =>
                UNCHANGED <<download_active, download_queue, promo>>
        /\ \A n \in DOMAIN tasks' :
            tasks'[n].mode = "now" =>
                /\ wpc'[n] # "none"
                /\ n \notin Range(download_queue') \cup promo'
      ]_vars

\* C3 witness: a now transfer submitted while a serial transfer held the slot
\* has completed, the serial transfer is still running and the slot still busy.
C3_Witness ==
    \E a, b \in DOMAIN tasks :
        /\ tasks[a].mode = "queue" /\ InFlight(a) /\ download_active
        /\ tasks[b].mode = "now" /\ wpc[b] = "done" /\ a < b

\* C4: a mode=queue submission that read the slot free sets it busy, starts the
\* transfer at once, appends exactly one record, with status Downloading, for
\* the new task to the store, and does not put the task in the FIFO.
C4_QueueSubmitOnFreeSlot ==
    [][ IsSubmitQueueStart =>
            LET n == handler.n IN
            /\ download_active' = TRUE
            /\ wpc[n] = "none" /\ wpc'[n] = "download"
            /\ RecordsOf(disk, n) = {}
            /\ RecordsOf(disk', n) = {Len(disk')}
            /\ disk'[Len(disk')] = [n |-> n, task_id |-> tasks[n].task_id,
                                     url |-> tasks[n].url, status |-> "Downloading",
                                     timestamp |-> tasks[n].task_id]
            /\ history' = Append(history, disk'[Len(disk')])
            /\ n \notin Range(download_queue') \cup promo'
            /\ ~handler'.queued
      ]_vars

\* C4 witness: the answer to such a submission is about to be sent, its
\* transfer is running and its record says Downloading.
C4_Witness ==
    /\ handler.op = "download" /\ handler.pc = "send" /\ ~handler.queued
    /\ tasks[handler.n].mode = "queue"
    /\ download_active /\ wpc[handler.n] = "download"
    /\ StatusOf(disk, handler.n) = {"Downloading"}

\* C5: a mode=queue submission that read the slot busy starts no worker,
\* appends the task as the last FIFO entry, appends one Queued record, and
\* answers queued=true with queue_position = FIFO length before it + 1.
C5_QueueSubmitOnBusySlot ==
    [][ /\ IsSubmitQueueAppend =>
            /\ download_queue' = Append(download_queue, handler.n)
            /\ wpc' = wpc
        /\ IsSubmitQueueRecord =>
            /\ wpc' = wpc
            /\ RecordsOf(disk', handler.n) = {Len(disk')}
            /\ disk'[Len(disk')].status = "Queued"
            /\ handler'.queued
            /\ handler'.k = handler.k + 1
      ]_vars

\* C6: when a serial-slot worker completes (return or raise) the slot is
\* cleared and, if the FIFO is non-empty, exactly its head is popped and then
\* started on a fresh worker with its record moved from Queued to Downloading;
\* if the FIFO is empty the slot stays free and nothing is started.
C6_CompletionPromotesHead ==
    [][ /\ \A n \in DOMAIN tasks : IsWorkerFinally(n) =>
            /\ download_active' = FALSE
            /\ download_queue # <<>> =>
                    /\ download_queue' = Tail(download_queue)
                    /\ promo' = promo \cup {Head(download_queue)}
            /\ download_queue = <<>> =>
                    UNCHANGED <<download_queue, promo>>
            /\ \A m \in DOMAIN tasks : m # n => wpc'[m] = wpc[m]
        /\ \A n \in DOMAIN tasks : IsPromotion(n) =>
            /\ wpc[n] = "none" /\ wpc'[n] = "download"
            /\ StatusOf(disk, n) = {"Queued"}
            /\ StatusOf(disk', n) = {"Downloading"}
      ]_vars

\* C7: serial-slot tasks start in FIFO arrival order: when a queued task is
\* promoted, no task queued before it (and not removed or canceled) is still
\* waiting; and the FIFO always lists its entries in arrival order.
C7_FifoStartOrder ==
    [][ /\ \A n \in DOMAIN tasks : IsPromotion(n) =>
            \A m \in promo \cup Range(download_queue) :
                (m < n /\ StatusOf(disk, m) = {"Queued"}) => wpc'[m] # "none"
        /\ \A i, j \in DOMAIN download_queue' :
            i < j => download_queue'[i] < download_queue'[j]
      ]_vars

\* C8: with T1 active in the slot and T2 queued behind it, a Cancel naming T2
\* removes T2 from the FIFO, marks T2's record Canceled, does not start T2, and
\* leaves T1's Downloading status and the busy slot unchanged.
C8_CancelWhileQueued ==
    [][ \A t1, t2 \in DOMAIN tasks :
            ( /\ IsCancel /\ handler'.k = tasks[t2].url
              /\ tasks[t1].url # tasks[t2].url
              /\ download_active /\ wpc[t1] = "download"
              /\ StatusOf(disk, t1) = {"Downloading"}
              /\ t2 \in Range(download_queue)
              /\ StatusOf(disk, t2) = {"Queued"} ) =>
            /\ t2 \notin Range(download_queue')
            /\ t2 \notin promo'
            /\ StatusOf(disk', t2) = {"Canceled"}
            /\ StatusOf(disk', t1) = {"Downloading"}
            /\ download_active' = TRUE
      ]_vars

\* C9: a Cancel naming the url of an in-flight serial task whose record is in
\* progress marks that record Canceled, clears the slot and promotes the FIFO
\* head if there is one.
C9_CancelInFlight ==
    [][ \A n \in DOMAIN tasks :
            ( /\ IsCancel /\ handler'.k = tasks[n].url
              /\ tasks[n].mode = "queue" /\ InFlight(n)
              /\ StatusOf(disk, n) \subseteq {"Downloading", "Extracting"}
              /\ StatusOf(disk, n) # {} ) =>
            /\ StatusOf(disk', n) = {"Canceled"}
            /\ download_active' = FALSE
            /\ download_queue # <<>> =>
                    /\ download_queue' = Tail(download_queue)
                    /\ promo' = promo \cup {Head(download_queue)}
      ]_vars

\* C10: a Cancel that matches no in-flight or queued record, and a
\* RemoveFromQueue of an id that is not in the FIFO, answer with a failure and
\* change neither the FIFO, the slot nor any record.
C10_NotFoundChangesNothing ==
    [][ /\ (IsCancel /\ handler'.n = 0 /\ \A m \in Range(download_queue) : tasks[m].url # handler'.k) =>
            /\ handler'.arg # 200
            /\ UNCHANGED <<download_active, download_queue, promo, history, disk>>
        /\ IsRemoveNotFound =>
            /\ handler'.arg # 200
            /\ UNCHANGED <<download_active, download_queue, promo, history, disk>>
      ]_vars
IsClearQueue == handler.op = "clear" /\ handler.pc = "clear" /\ handler'.pc = "send"
IsRemovePop == handler.op = "remove" /\ handler.pc = "pop" /\ handler'.pc = "send"

\* C11: after ClearQueue the FIFO is empty, every record the store showed
\* Queued is Canceled in the store, and the count returned is the number of
\* FIFO entries the call removed.
C11_ClearQueueRoundTrip ==
    [][ IsClearQueue =>
            /\ download_queue' = <<>>
            /\ Len(disk') = Len(disk)
            /\ \A i \in DOMAIN disk :
                disk[i].status = "Queued" => disk'[i].status = "Canceled"
            /\ handler'.arg = 200
            /\ handler'.k = Len(download_queue)
      ]_vars

\* C12: ClearQueue empties the FIFO atomically with respect to worker
\* completions (no completion changes the FIFO while the call is under way)
\* and does not touch the active task: the slot, the running
\* transfers, the records of a task in flight and every record that is not
\* Queued are unchanged by it.
C12_ClearQueueFrame ==
    [][ /\ (handler.op = "clear" /\ handler.pc = "clear" /\ handler' = handler) =>
            UNCHANGED download_queue
        /\ IsClearQueue =>
            /\ UNCHANGED <<download_active, wpc, promo, history>>
            /\ Len(disk') = Len(disk)
            /\ \A i \in DOMAIN disk :
                (disk[i].status # "Queued" \/ InFlight(disk[i].n)) => disk'[i] = disk[i]
      ]_vars

\* the FIFO entries that carry a task_id
EntriesOf(q, tid) == {i \in DOMAIN q : tasks[q[i]].task_id = tid}

\* C13: RemoveFromQueue called twice for the same queued id answers found the
\* first time and not found the second time, and the second call changes
\* nothing: the call that found the id in the FIFO answers found and leaves no
\* entry with that id behind, and a call that does not find the id answers not
\* found and changes no state.
C13_RemoveTwice ==
    [][ /\ IsRemovePop =>
            /\ handler'.arg = 200
            /\ EntriesOf(download_queue', handler.arg) = {}
        /\ IsRemoveNotFound =>
            /\ handler'.arg = 404
            /\ EntriesOf(download_queue, handler'.k) = {}
            /\ UNCHANGED <<download_active, download_queue, promo, history, disk, wpc>>
      ]_vars

\* C14: RemoveFromQueue of a queued id removes exactly the FIFO entry with
\* that id and keeps the order of the others, marks the record of the removed
\* task Canceled, and leaves the slot, the workers and every other record
\* unchanged.
C14_RemoveExactlyOne ==
    [][ IsRemovePop =>
            LET idx == FirstIdx(EntriesOf(download_queue, handler.arg)) IN
            /\ idx # 0
            /\ handler'.arg = 200
            /\ download_queue' = RemoveAt(download_queue, idx)
            /\ StatusOf(disk', download_queue[idx]) = {"Canceled"}
            /\ Len(disk') = Len(disk)
            /\ \A i \in DOMAIN disk : disk[i].n # download_queue[idx] => disk'[i] = disk[i]
            /\ UNCHANGED <<download_active, wpc, promo, history>>
      ]_vars

\* the statuses of a record whose task has not come to an end
NonTerminal(st) == st \in {"Queued", "Downloading", "Telechargement", "Connecting", "Extracting", "Converting"}

\* C15: every submitted task has a task_id of its own, and the store never
\* holds more than one non-terminal record per task_id.
C15_TaskIdUnique ==
    /\ \A a, b \in DOMAIN tasks : a # b => tasks[a].task_id # tasks[b].task_id
    /\ \A i, j \in DOMAIN disk :
        (i # j /\ disk[i].task_id = disk[j].task_id) =>
            ~(NonTerminal(disk[i].status) /\ NonTerminal(disk[j].status))

\* C16: once a record of the store is marked Canceled, no later write moves
\* its persisted status to Extracting, Converting, Downloading or Download_OK.
C16_CanceledIsFinal ==
    [][ \A i \in DOMAIN disk :
            disk[i].status = "Canceled" =>
                /\ i \in DOMAIN disk'
                /\ disk'[i].status \notin {"Extracting", "Converting", "Downloading", "Download_OK"}
      ]_vars

\* C17: every check-then-act on the slot and the FIFO is atomic: between the
\* submit handler's test of the slot and the append or start that follows from
\* it, between ClearQueue's count and its clear, and between RemoveFromQueue's
\* search and its pop, no other thread changes the slot or the FIFO.
C17_CriticalSections ==
    [][ (handler.pc \in {"append", "start", "clear", "pop"} /\ handler' = handler) =>
            UNCHANGED <<download_active, download_queue>>
      ]_vars

\* C18: no step of the ArchiveExtractor or of a PlatformPostProcessor sets a
\* record's status to Download_OK, in config.history or in the store.
C18_ExtractorNeverWritesSuccess ==
    [][ /\ \A i \in DOMAIN history' :
            history'[i].status = "Download_OK" =>
                (i \in DOMAIN history /\ history[i].status = "Download_OK")
        /\ \A i \in DOMAIN disk' :
            disk'[i].status = "Download_OK" =>
                (i \in DOMAIN disk /\ disk[i].status = "Download_OK")
      ]_vars

\* C19: whenever ZIP Extract returns ok = true the archive file no longer
\* exists.
C19_ZipSuccessRemovesArchive ==
    (ex.pc = "done" /\ ex.ok) => ~ex.exists

\* C20: whenever ZIP Extract returns ok = false the archive file is still
\* there, and a corruption the integrity check detects (the file is no ZIP
\* archive, or testzip() finds an unsound entry) ends the extraction with
\* ok = false and the CorruptArchive message.
C20_ZipFailureKeepsArchive ==
    /\ (ex.pc = "done" /\ ~ex.ok) => ex.exists
    /\ (ex.pc = "done" /\ (~ex.iszip \/ ex.testzip # "none")) =>
            (~ex.ok /\ ex.msg = "corrupt_zip")

\* C21: after extract_rar has returned, the RAR archive is no longer on disk,
\* whatever the outcome (success, exception, or any early failure return).
C21_RarArchiveRemoved == ex.pc = "done" => (~ex.exists /\ ~ex.moved)

\* C22: no failure inside extract_zip or extract_rar (a filesystem call, a
\* subprocess call, a progress write, a platform handler that raises) leaves
\* the function as an exception; a platform handler that failed makes the
\* function return ok = false; and a false result carries a message.
C22_FailuresAreReported ==
    /\ ex.pc # "raised"
    /\ (ex.pc = "done" /\ ex.post = "failed") => ~ex.ok
    /\ (ex.pc = "done" /\ ~ex.ok) => ex.msg # ""

\* C22 witness: a platform handler raised, the except clause of the extractor
\* caught it and the extractor has returned (false, extraction failed).
C22_Witness ==
    ex.pc = "done" /\ ex.post = "failed" /\ ~ex.ok /\ ex.msg = "extraction_failed"

\* the file entries of the archive whose path is also a directory on the path
\* of another file entry
PrefixFiles ==
    {p \in ZipNames : ex.members[p] # "absent" /\
        \E f \in ZipNames : f # p /\ ex.members[f] # "absent" /\ p \in ParentsOf(f)}

C24_EmptyPayloadKeepsDirectories ==
    (ex.pc = "done" /\ ex.iszip /\ ex.testzip # "raise" /\ TotalSize(ex.members) = 0) =>
        /\ ex.ok
        /\ ex.post = "none"
        /\ DestAdded = (IF ex.hasdir THEN {EmptyDir} ELSE {})

\* a step of _update_extraction_progress that changed a record list
IsProgressUpdate ==
    /\ wpc' = wpc /\ handler' = handler /\ promo' = promo
    /\ <<history, disk>>' # <<history, disk>>

\* the positions at which the record list t differs from the record list s
ChangedIn(s, t) == {i \in DOMAIN s : i \notin DOMAIN t \/ t[i] # s[i]}

\* what one progress update for url u may do to a record list: no record
\* appears or disappears, at most one changes, and it is a record with url u
\* and status Telechargement, Extracting or Downloading that becomes Extracting
ProgressFrame(s, t, u) ==
    /\ DOMAIN t = DOMAIN s
    /\ Cardinality(ChangedIn(s, t)) <= 1
    /\ \A i \in ChangedIn(s, t) :
        /\ s[i].url = u /\ s[i].status \in ExtractStatuses
        /\ t[i] = [s[i] EXCEPT !.status = "Extracting"]

\* C25: an extraction progress update changes at most one TaskRecord, one
\* whose url is the correlation url and whose status is Telechargement,
\* Extracting or Downloading, and makes it Extracting; every other record,
\* in memory and in the store, is left as it was.
C25_ProgressUpdateFrame ==
    [][ IsProgressUpdate =>
            \E n \in DOMAIN tasks :
                /\ wpc[n] = "extract"
                /\ ProgressFrame(history, history', tasks[n].url)
                /\ ProgressFrame(disk, disk', tasks[n].url)
      ]_vars

\* C26: every step that moves a record of the store to Downloading, Canceled,
\* Extracting, Converting or Error gives that record a new timestamp.
C26_TransitionsStampTime ==
    [][ \A i \in DOMAIN disk :
            ( /\ i \in DOMAIN disk'
              /\ disk'[i].status # disk[i].status
              /\ disk'[i].status \in {"Downloading", "Canceled", "Extracting", "Converting", "Error"} )
            => disk'[i].timestamp # disk[i].timestamp
      ]_vars

IsApiHistory == handler.op = "idle" /\ handler'.op = "history"
IsApiProgress == handler.op = "idle" /\ handler'.op = "progress"

\* C27: the answer of the history query holds every record of the store whose
\* status is Download_OK, Error, Canceled, Queued, Downloading, Extracting,
\* Converting or Try n/m, by descending timestamp; the answer of the progress
\* query holds every record whose status is Downloading, Extracting,
\* Converting or Try n/m, and no record that is terminal or Queued.
C27_Queries ==
    [][ /\ IsApiHistory =>
            LET r == handler'.k IN
            /\ \A i \in DOMAIN disk :
                disk[i].status \in {"Download_OK", "Error", "Canceled", "Queued", "Downloading",
                                    "Extracting", "Converting"} \cup TryStatuses
                    => \E j \in DOMAIN r : r[j] = disk[i]
            /\ \A j, k \in DOMAIN r : j < k => r[j].timestamp >= r[k].timestamp
        /\ IsApiProgress =>
            LET r == handler'.k IN
            /\ \A i \in DOMAIN disk :
                disk[i].status \in {"Downloading", "Extracting", "Converting"} \cup TryStatuses
                    => \E u \in DOMAIN r : r[u] = disk[i]
            /\ \A u \in DOMAIN r :
                r[u].status \notin {"Download_OK", "Error", "Canceled", "Queued"}
      ]_vars

\* the handler of the platform has returned
PostDone(platform) == ex.pc = "done" /\ ex.platform = platform

\* C28: handle_dos called when the extraction has added exactly one top-level
\* entry, a directory: on success that directory has become <basename>.pc, it
\* is no longer there under its own name, and no other top-level entry has
\* appeared or gone; at most 3 renames are attempted, and a failure is
\* returned only after the third.
C28_DosSingleDirectoryRenamed ==
    \A x \in TopNames \ {TargetName("dos")} :
        (PostDone("dos") /\ ex.new = {x} /\ ex.top0[x] = "dir") =>
            /\ ex.tries <= MaxRetries
            /\ ~ex.ok => ex.tries = MaxRetries
            /\ ex.ok =>
                /\ ex.renamed = x
                /\ ex.top[TargetName("dos")] = "dir"
                /\ ex.top[x] = "absent"
                /\ \A y \in TopNames \ {x, TargetName("dos")} : ex.top[y] = ex.top0[y]

DosKept == {x \in ex.new : x \notin IgnoreNames("dos") /\ ~EndsWith(x, ".pc")}

C30_ScummvmFolderAndMarker ==
    PostDone("scummvm") =>
        /\ ex.top[TargetName("scummvm")] = "dir"
        /\ ex.marker
        /\ \A x \in ex.new \ {TargetName("scummvm")} : x \in ex.inside /\ ex.top[x] = "absent"

\* C31: when handle_psvita has returned: without a newly created top-level
\* directory (nothing new, or files only) the result is (False, message);
\* and a success means that the inner zip (so there was a game folder with
\* an inner zip) has been extracted to ux0/app, that the .psvita marker is in
\* dest_dir and that the game folder is gone
C31_PsvitaPreconditions ==
    PostDone("psvita") =>
        /\ {x \in ex.new : ex.top0[x] = "dir"} = {} => (~ex.ok /\ ex.msg # "")
        /\ ex.ok => /\ ex.game_folder # ""
                    /\ ex.ux0 /\ ex.marker
                    /\ ex.top[ex.game_folder] = "absent"

\* the order of the steps of PS3 post-processing
Ps3Steps == <<"key", "decrypt", "rm_iso", "unpack", "rm_decrypted", "rm_key">>

\* C32: handle_ps3 does its steps in the order key, decrypt, delete the
\* encrypted ISO, unpack, delete the decrypted ISO, delete the key, and stops
\* at the first that fails: the steps completed are always a prefix of that
\* order; the encrypted ISO is gone only once the decryption has succeeded;
\* a failure for want of a key or of the decryption leaves it in place; and
\* on success <iso-base>.ps3 is there and the encrypted ISO, the decrypted
\* ISO and the key file are not
C32_Ps3StepsInOrder ==
    /\ Len(ex.steps) <= Len(Ps3Steps)
    /\ ex.steps = SubSeq(Ps3Steps, 1, Len(ex.steps))
    /\ (ex.iso0 /\ ~ex.iso) => "decrypt" \in Range(ex.steps)
    /\ (ex.pc = "done" /\ ~ex.ok /\ ex.msg \in {"no_key", "decrypt_failed"}) => ex.iso
    /\ (ex.pc = "done" /\ ex.ok) =>
            /\ ex.steps = Ps3Steps
            /\ ex.folder /\ ~ex.iso /\ ~ex.decrypted /\ ~ex.dkey

\* the handler found an encrypted ISO, completed every step and succeeded
C32_Witness ==
    /\ ex.pc = "done" /\ ex.ok /\ ex.iso0
    /\ ex.steps = Ps3Steps

\* C33: the repack tool is run only on images that the extraction added;
\* while the images are repacked the record of the task is Converting, in
\* memory and in the store, with progress idx/total after each image; and
\* once a repack has failed the handler has returned failure, the images
\* after the failing one have not been touched and the record is Error
C33_XboxRepack ==
    LET rec == history[1] IN
    /\ ex.passed \subseteq ex.iso_after \ ex.iso_before
    /\ ex.pc \in {"repack", "final"} =>
            /\ rec.status = "Converting" /\ disk = history
            /\ rec.progress = (ex.idx * 100) \div ex.total
    /\ ex.failed =>
            /\ ex.pc = "done" /\ ~ex.ok
            /\ Cardinality(ex.passed) = ex.idx
            /\ rec.status = "Error" /\ disk = history

\* C34: when _handle_special_platforms has returned: for a folder that is no
\* platform folder no branch was entered, nothing was touched and the answer
\* is success; for a platform folder the branch of that platform, and no
\* other, was entered, whichever extractor called
C34_DispatchByDestDir ==
    ex.pc = "done" =>
        /\ ex.dest = "plain" => (ex.ran = {} /\ ~ex.touched /\ ex.ok)
        /\ \A i \in DOMAIN DispatchOrder :
                ex.dest \in FoldersOf(DispatchOrder[i]) => ex.ran = {DispatchOrder[i]}

\* C35: under fair scheduling, with transfers that end, every task that is
\* in the FIFO eventually leaves it (it is promoted, or removed by a cancel,
\* clear or remove request): none stays there for ever
C35_QueuedEventuallyLeaves ==
    \A n \in TaskNs :
        (n \in Range(download_queue)) ~> (n \notin Range(download_queue))

C37_SubmitKeepsCanceled ==
    [][ (IsSubmitQueueRecord \/ IsSubmitQueueStart) =>
            \A i \in DOMAIN disk :
                disk[i].status = "Canceled" =>
                    /\ i \in DOMAIN disk'
                    /\ disk'[i].task_id = disk[i].task_id
                    /\ disk'[i].status \notin {"Queued", "Downloading"}
      ]_vars

\* C38: a cancel request whose url matches no record in progress, or matches
\* the record of a task submitted with mode now, leaves the slot and the FIFO
\* as they were and promotes nothing
C38_CancelOffSlot ==
    [][ (IsCancel /\ (handler'.n = 0 \/ tasks[handler'.n].mode = "now")) =>
            UNCHANGED <<download_active, download_queue, promo>>
      ]_vars

\* C39: whenever no submit handler stands between its append to the FIFO and
\* the save of its record: each FIFO entry has exactly one record of its
\* task_id that the store shows Queued, and every record the store shows
\* Queued is that of a task in the FIFO or being promoted
C39_QueueMatchesStore ==
    handler.pc # "record" =>
        /\ \A k \in DOMAIN download_queue :
                Cardinality({i \in DOMAIN disk :
                                /\ disk[i].task_id = tasks[download_queue[k]].task_id
                                /\ disk[i].status = "Queued"}) = 1
        /\ \A i \in DOMAIN disk :
                disk[i].status = "Queued" => disk[i].n \in Range(download_queue) \cup promo

\* C40: when a DOS, ScummVM or PSVita handler has returned, whichever
\* extractor called it: every name that was at the top level of dest_dir
\* before the extraction is still there, as what it was; and the DOS handler
\* called when the only new item is a .pc folder has changed nothing
C40_OldEntriesStay ==
    ex.pc = "done" =>
        /\ \A x \in TopNames :
                (ex.top0[x] # "absent" /\ x \notin ex.new) => ex.top[x] = ex.top0[x]
        /\ (ex.platform = "dos" /\ ex.new = {"Game.pc"}) => ex.top = ex.top0

====
